---- MODULE Spec2Model ----
(***************************************************************************)
(* A model of the backtest engine of src/backtest_engine.py: the scoring   *)
(* rule table (score_row), the portfolio simulator (_simulate_on_dates),   *)
(* its evaluator, and the walk-forward threshold selection.                *)
(*                                                                         *)
(* Numbers.  The engine computes in binary floating point; the model       *)
(* computes the same expressions exactly, in integers:                     *)
(*   - prices (Open, Close, benchmark close) are whole dollars;            *)
(*   - money (cash, equity, fill prices, costs) is counted in units of     *)
(*     1/UNITS dollar, UNITS = 10000 / SLIPPAGE_BPS = 2000, so that one    *)
(*     dollar of price carries exactly one unit of slippage;               *)
(*   - fractions of equity (position size, cash buffer) are counted in     *)
(*     twentieths of a unit, exact for percentages that are multiples of 5;*)
(*   - a rounded result field is an integer count of its last digit.       *)
(* NaN is the integer -1, outside every range a defined value can take.    *)
(***************************************************************************)
EXTENDS Integers, Sequences, FiniteSets, TLC

(* ------------------------- module constants --------------------------- *)
SYMBOLS == <<"AAPL", "MSFT", "GOOGL", "AMZN", "TSLA", "NVDA", "META", "AMD", "NFLX">>
INITIAL_CAPITAL == 10000
ENTRY_THRESHOLD == 70
MAX_POSITION_PCT == 15
MAX_OPEN_POSITIONS == 6
MAX_NEW_TRADES_PER_DAY == 1
CASH_BUFFER_PCT == 20
STOP_LOSS_PCT == 8
SLIPPAGE_BPS == 5
FEE_PER_TRADE == 1
TRADING_DAYS == 252
BPS_PER_ONE == 10000
BENCHMARK == "SPY"
\* sorted(SYMBOLS): the order of symbols_considered.
SORTED_SYMBOLS == <<"AAPL", "AMD", "AMZN", "GOOGL", "META", "MSFT", "NFLX", "NVDA", "TSLA">>
\* The shortest benchmark history _build_symbol_data accepts.
MIN_BENCHMARK_DATES == 252
\* The floors of run_walk_forward_backtest and its default grid.
MIN_TRAIN_DAYS == 120
MIN_TEST_DAYS == 20
MIN_STEP_DAYS == 10
DEFAULT_GRID == <<65, 70, 75>>
\* rolling(window=200): the first row of a symbol that carries every feature.
WARM_UP == 200

NaN == 0 - 1
UNITS == BPS_PER_ONE \div SLIPPAGE_BPS
TWENTIETHS == 100 \div 5

(* ------------------------------ bounds -------------------------------- *)
\* Length of the calendar of the two-symbol runs.
MaxDates == 3
\* Length of the calendar of the seven-symbol runs that fill every slot.
CapDates == 8
\* Calls of score_row on one row.
MaxCalls == 2
\* Longest train window handed to _select_threshold_for_train.
MaxTrainDays == 3
\* Dates of the provider's calendar beyond MIN_BENCHMARK_DATES.
MaxSpare == 1
\* Orders of the book that the broker may hold open.
MaxOpenOrders == 4

(* --------------------------- arithmetic ------------------------------- *)
Max(a, b) == IF a >= b THEN a ELSE b
Min(a, b) == IF a <= b THEN a ELSE b
Abs(a) == IF a >= 0 THEN a ELSE 0 - a
Sign(a) == IF a > 0 THEN 1 ELSE IF a < 0 THEN 0 - 1 ELSE 0

RECURSIVE Gcd(_, _)
Gcd(a, b) == IF b = 0 THEN a ELSE Gcd(b, a % b)

\* A fraction num/den (den > 0) in lowest terms.
Frac(num, den) ==
    LET g == Gcd(Abs(num), den)
    IN  [num |-> num \div g, den |-> den \div g]

\* Python's round(): the integer nearest to num/den (den > 0), a tie going to
\* the even neighbour.
RoundHalfEven(num, den) ==
    LET q == (2 * num + den) \div (2 * den)
        tie == (2 * num + den) % (2 * den) = 0
    IN  IF tie /\ q % 2 # 0 THEN q - 1 ELSE q

\* The values round() may give num/den (den > 0) computed in floating point:
\* the nearest integer, and either neighbour when num/den lies half way, where
\* the error of the computation decides.
RoundChoices(num, den) ==
    LET low == num \div den
        rest == num % den
    IN  IF 2 * rest < den THEN {low}
        ELSE IF 2 * rest > den THEN {low + 1}
        ELSE {low, low + 1}

\* round(x, 4) and round(x, 2) of an amount of units: counts of 0.0001 dollar
\* and of cents. (No trade of the tables below has a notional half way between
\* two cents.)
Round4(amount) == RoundHalfEven(amount * (BPS_PER_ONE \div UNITS), 1)
Round2(amount) == RoundHalfEven(amount, UNITS \div 100)

Range(seq) == {seq[i] : i \in 1..Len(seq)}
Last(seq) == seq[Len(seq)]

RECURSIVE SeqSum(_)
SeqSum(seq) == IF seq = <<>> THEN 0 ELSE Head(seq) + SeqSum(Tail(seq))

(* ----------------------------- score_row ------------------------------ *)
\* Lines 87-117: the columns of the row calculate_features builds, which is the
\* row score_row is applied to (line 182).
Columns ==
    {"Close", "High", "Low", "Volume", "ret_5d", "ret_20d", "sma_50", "sma_200",
     "dist_sma_50", "dist_sma_200", "rsi_14", "atr_14", "atr_pct", "vol_20d_avg",
     "rel_vol", "vol_20d"}

\* A row is [value, isna]: value gives every column a number and isna is the set
\* of the columns whose cell is NaN (their number is then not read). rsi_14 is
\* in points, atr_pct and vol_20d in percent, rel_vol in tenths; the returns
\* and distances count in any unit, only their sign is read.

\* A check of the scored columns alone.
IsNaAny_scored_only(row) ==
    row.isna \cap {"dist_sma_50", "dist_sma_200", "rsi_14", "ret_5d", "ret_20d",
                   "atr_pct", "rel_vol", "vol_20d"} # {}

\* Line 123: row.isna().any().
IsNaAny(row) == row.isna # {}

\* Lines 128-136.
MomentumPoints(v) ==
    (IF v.dist_sma_50 > 0 THEN 10 ELSE 0)
    + (IF v.rsi_14 > 50 THEN 8 ELSE 0)
    + (IF v.ret_5d > 0 THEN 7 ELSE 0)
    + (IF v.ret_20d > 0 THEN 10 ELSE 0)

\* Lines 138-144.
QualityPoints(v) ==
    (IF v.dist_sma_200 > 0 THEN 10 ELSE 0)
    + (IF 45 <= v.rsi_14 /\ v.rsi_14 <= 70 THEN 8 ELSE 0)
    + (IF v.atr_pct < 4 THEN 7 ELSE 0)

\* Lines 146-152.
CatalystPoints(v) ==
    (IF v.rel_vol > 18 THEN 12 ELSE IF v.rel_vol > 12 THEN 8 ELSE 0)
    + (IF v.ret_5d > 0 /\ v.ret_20d > 0 THEN 8 ELSE 0)

\* A regime rule that gives its points whatever the sign of the 20-day return.
RegimePoints_any_sign(v) ==
    IF v.vol_20d <= 25 THEN 20
    ELSE IF v.vol_20d <= 35 THEN 12
    ELSE IF v.vol_20d <= 45 THEN 6
    ELSE 0

\* Lines 154-161.
RegimePoints(v) ==
    IF v.vol_20d <= 25 /\ v.ret_20d > 0 THEN 20
    ELSE IF v.vol_20d <= 35 /\ v.ret_20d > 0 THEN 12
    ELSE IF v.vol_20d <= 45 THEN 6
    ELSE 0

\* Lines 122-163.
ScoreRow(row) ==
    IF IsNaAny(row) THEN NaN
    ELSE LET score == 0 + MomentumPoints(row.value) + QualityPoints(row.value)
                        + CatalystPoints(row.value) + RegimePoints(row.value)
         IN  Min(100, Max(0, score))

(* --------------------------- the simulator ---------------------------- *)
\* _slippage_factor(), in units per dollar of price.
SlippageFactor == (SLIPPAGE_BPS * UNITS) \div BPS_PER_ONE

\* The stop rule with the boundary left out.
StopHit_strict(close_price, entry_price, stop_loss_pct) ==
    close_price * 100 < entry_price * (100 - stop_loss_pct)

\* Line 226: close_price <= entry_price * (1.0 - stop_loss_pct); both prices in
\* units, stop_loss_pct in percent.
StopHit(close_price, entry_price, stop_loss_pct) ==
    close_price * 100 <= entry_price * (100 - stop_loss_pct)

\* Lines 230-239: the SELL_STOP record; price to 4 decimals, notional to cents.
SellStopTrade(date, symbol, quantity, exit_price) ==
    [date |-> date, symbol |-> symbol, side |-> "SELL_STOP", qty |-> quantity,
     price |-> Round4(exit_price), score |-> NaN,
     notional |-> Round2(quantity * exit_price)]

\* An exit loop that sells every held position, whatever its close.
ExitOne_liquidating(acc, position, close, date, stop_loss_pct) ==
    [cash |-> acc.cash
                + Max(0, position.qty * close[position.symbol] * (UNITS - SlippageFactor)
                            - FEE_PER_TRADE * UNITS),
     positions |-> acc.positions,
     trades |-> Append(acc.trades,
                       SellStopTrade(date, position.symbol, position.qty,
                                     close[position.symbol] * (UNITS - SlippageFactor)))]

\* Lines 222-240: one pass of the exit loop over one held position.
ExitOne(acc, position, close, date, stop_loss_pct) ==
    LET close_price == close[position.symbol] * UNITS
        entry_price == position.entry_price
        quantity == position.qty
        exit_price == close[position.symbol] * (UNITS - SlippageFactor)
        proceeds == quantity * exit_price - FEE_PER_TRADE * UNITS
    IN  IF StopHit(close_price, entry_price, stop_loss_pct)
        THEN [cash |-> acc.cash + Max(0, proceeds),
              positions |-> acc.positions,
              trades |-> Append(acc.trades,
                                SellStopTrade(date, position.symbol, quantity, exit_price))]
        ELSE [acc EXCEPT !.positions = Append(@, position)]

\* Lines 221-240: the exit loop over list(positions.keys()), in insertion order.
RECURSIVE ExitLoop(_, _, _, _, _)
ExitLoop(acc, todo, close, date, stop_loss_pct) ==
    IF todo = <<>> THEN acc
    ELSE ExitLoop(ExitOne(acc, Head(todo), close, date, stop_loss_pct),
                  Tail(todo), close, date, stop_loss_pct)

MarkAndExitPhase(cash, positions, trades, close, date, stop_loss_pct) ==
    ExitLoop([cash |-> cash, positions |-> <<>>, trades |-> trades],
             positions, close, date, stop_loss_pct)

\* Lines 243-246 and 303-305: cash plus every open position at the date's close.
RECURSIVE MarkToMarket(_, _, _)
MarkToMarket(cash, positions, close) ==
    IF positions = <<>> THEN cash
    ELSE MarkToMarket(cash + Head(positions).qty * close[Head(positions).symbol] * UNITS,
                      Tail(positions), close)

Held(positions) == {positions[i].symbol : i \in 1..Len(positions)}

\* A cap that never binds.
CapReached_never(positions) == FALSE

\* Lines 249 and 271: the open-position cap.
CapReached(positions) == Len(positions) >= MAX_OPEN_POSITIONS

\* A candidate test that lets a held symbol through.
IsCandidate_held_too(symbol, positions, signal, open, entry_threshold) ==
    /\ ~(signal[symbol] = NaN \/ signal[symbol] < entry_threshold)
    /\ ~(open[symbol] <= 0)

\* Lines 251-260: whether a symbol of the table becomes a candidate.
IsCandidate(symbol, positions, signal, open, entry_threshold) ==
    /\ symbol \notin Held(positions)
    /\ ~(signal[symbol] = NaN \/ signal[symbol] < entry_threshold)
    /\ ~(open[symbol] <= 0)

\* An insertion that puts a candidate before the candidates of its own score.
RECURSIVE SortedInsert_unstable(_, _)
SortedInsert_unstable(sorted, item) ==
    IF sorted = <<>> THEN <<item>>
    ELSE IF Head(sorted).score > item.score
         THEN <<Head(sorted)>> \o SortedInsert_unstable(Tail(sorted), item)
         ELSE <<item>> \o sorted

\* Line 262: candidates.sort(key=score, reverse=True). The sort is stable: one
\* candidate is put behind every candidate whose score is at least its own.
RECURSIVE SortedInsert(_, _)
SortedInsert(sorted, item) ==
    IF sorted = <<>> THEN <<item>>
    ELSE IF Head(sorted).score >= item.score
         THEN <<Head(sorted)>> \o SortedInsert(Tail(sorted), item)
         ELSE <<item>> \o sorted

RECURSIVE SortByScoreDesc(_, _)
SortByScoreDesc(sorted, todo) ==
    IF todo = <<>> THEN sorted
    ELSE SortByScoreDesc(SortedInsert(sorted, Head(todo)), Tail(todo))

\* Lines 248-262: the candidate list, in symbol_data order, then sorted.
BuildCandidates(symbol_data, positions, signal, open, entry_threshold) ==
    LET keep(symbol) == IsCandidate(symbol, positions, signal, open, entry_threshold)
        listed == IF ~CapReached(positions) THEN SelectSeq(symbol_data, keep) ELSE <<>>
        items == [i \in 1..Len(listed) |->
                    [symbol |-> listed[i], score |-> signal[listed[i]],
                     next_open |-> open[listed[i]]]]
    IN  SortByScoreDesc(<<>>, items)

\* Spendable cash with nothing held back.
SpendableCash_no_buffer(cash, equity) == Max(0, TWENTIETHS * cash)

\* Lines 265-266: spendable cash, in twentieths of a unit.
SpendableCash(cash, equity) ==
    Max(0, TWENTIETHS * cash - ((CASH_BUFFER_PCT * TWENTIETHS) \div 100) * equity)

\* Lines 290-299: the BUY record; price to 4 decimals, score and notional to 2.
BuyTrade(date, symbol, qty, exec_price, score) ==
    [date |-> date, symbol |-> symbol, side |-> "BUY", qty |-> qty,
     price |-> Round4(exec_price), score |-> RoundHalfEven(score * 100, 1),
     notional |-> Round2(qty * exec_price)]

\* A pass that sizes the order on the whole target notional, the fee not set
\* aside.
EnterOne_fee_unreserved(acc, candidate, equity, max_position_pct, date) ==
    LET exec_price == candidate.next_open * (UNITS + SlippageFactor)
        target_notional == Min(equity * ((max_position_pct * TWENTIETHS) \div 100),
                               acc.spendable_cash)
        qty == target_notional \div (TWENTIETHS * exec_price)
        total_cost == qty * exec_price + FEE_PER_TRADE * UNITS
    IN  IF acc.broke THEN acc
        ELSE IF acc.opened >= MAX_NEW_TRADES_PER_DAY THEN [acc EXCEPT !.broke = TRUE]
        ELSE IF CapReached(acc.positions) THEN [acc EXCEPT !.broke = TRUE]
        ELSE IF acc.spendable_cash <= 0 THEN [acc EXCEPT !.broke = TRUE]
        ELSE IF qty <= 0 THEN acc
        ELSE IF total_cost > acc.cash THEN acc
        ELSE [cash |-> acc.cash - total_cost,
              spendable_cash |-> Max(0, acc.spendable_cash - TWENTIETHS * total_cost),
              positions |-> Append(acc.positions,
                                   [symbol |-> candidate.symbol, qty |-> qty,
                                    entry_price |-> exec_price, entry_date |-> date]),
              opened |-> acc.opened + 1,
              trades |-> Append(acc.trades,
                                BuyTrade(date, candidate.symbol, qty, exec_price,
                                         candidate.score)),
              broke |-> FALSE]

\* Lines 269-300: one pass of the entry loop over one candidate. acc.broke
\* records that a break has left the loop.
EnterOne(acc, candidate, equity, max_position_pct, date) ==
    LET exec_price == candidate.next_open * (UNITS + SlippageFactor)
        target_notional == Min(equity * ((max_position_pct * TWENTIETHS) \div 100),
                               acc.spendable_cash)
        qty == Max(0, target_notional - TWENTIETHS * FEE_PER_TRADE * UNITS)
                   \div (TWENTIETHS * exec_price)
        total_cost == qty * exec_price + FEE_PER_TRADE * UNITS
    IN  IF acc.broke THEN acc
        ELSE IF acc.opened >= MAX_NEW_TRADES_PER_DAY THEN [acc EXCEPT !.broke = TRUE]
        ELSE IF CapReached(acc.positions) THEN [acc EXCEPT !.broke = TRUE]
        ELSE IF acc.spendable_cash <= 0 THEN [acc EXCEPT !.broke = TRUE]
        ELSE IF qty <= 0 THEN acc
        ELSE IF total_cost > acc.cash THEN acc
        ELSE [cash |-> acc.cash - total_cost,
              spendable_cash |-> Max(0, acc.spendable_cash - TWENTIETHS * total_cost),
              positions |-> Append(acc.positions,
                                   [symbol |-> candidate.symbol, qty |-> qty,
                                    entry_price |-> exec_price, entry_date |-> date]),
              opened |-> acc.opened + 1,
              trades |-> Append(acc.trades,
                                BuyTrade(date, candidate.symbol, qty, exec_price,
                                         candidate.score)),
              broke |-> FALSE]

RECURSIVE EnterLoop(_, _, _, _, _)
EnterLoop(acc, todo, equity, max_position_pct, date) ==
    IF todo = <<>> THEN acc
    ELSE EnterLoop(EnterOne(acc, Head(todo), equity, max_position_pct, date),
                   Tail(todo), equity, max_position_pct, date)

\* Lines 264-300: the entry phase.
EnterPhase(cash, positions, trades, candidates, equity, max_position_pct, date) ==
    EnterLoop([cash |-> cash, spendable_cash |-> SpendableCash(cash, equity),
               positions |-> positions, opened |-> 0, trades |-> trades,
               broke |-> FALSE],
              candidates, equity, max_position_pct, date)

\* A snapshot that values the positions at what was paid for them.
SnapshotOf_at_cost(date, cash, positions, close) ==
    [date |-> date,
     equity |-> cash + SeqSum([i \in 1..Len(positions) |->
                                 positions[i].qty * positions[i].entry_price]),
     cash |-> cash, positions |-> Len(positions)]

\* Lines 303-306: the end-of-day snapshot.
SnapshotOf(date, cash, positions, close) ==
    [date |-> date, equity |-> MarkToMarket(cash, positions, close), cash |-> cash,
     positions |-> Len(positions)]

\* Lines 216-306: one pass of the date loop, from the state run of the previous
\* pass, reading the rows bar of the table.
SimulateDate(run, date, keys, bar, entry_thr, max_pos_pct, stop_pct) ==
    LET exits == MarkAndExitPhase(run.cash, run.positions, run.trades, bar.close,
                                  date, stop_pct)
        today_equity == MarkToMarket(exits.cash, exits.positions, bar.close)
        sorted == BuildCandidates(keys, exits.positions, bar.signal, bar.open, entry_thr)
        entries == EnterPhase(exits.cash, exits.positions, exits.trades, sorted,
                              today_equity, max_pos_pct, date)
    IN  [cash |-> entries.cash, positions |-> entries.positions,
         trades |-> entries.trades,
         history |-> Append(run.history,
                            SnapshotOf(date, entries.cash, entries.positions, bar.close))]

\* A check that lets an empty symbol table through.
Rejects_dates_only(dates, symbol_data) == Len(dates) < 2

\* Lines 204-207: the two conditions on which the call raises.
Rejects(dates, symbol_data) == Len(dates) < 2 \/ symbol_data = <<>>

\* A start on half the capital.
FreshRun_half_cash(dates) ==
    [cash |-> (INITIAL_CAPITAL * UNITS) \div 2, positions |-> <<>>, trades |-> <<>>,
     history |-> <<[date |-> dates[1], equity |-> INITIAL_CAPITAL * UNITS,
                    cash |-> INITIAL_CAPITAL * UNITS, positions |-> 0]>>]

\* A start without the snapshot of the first date.
FreshRun_no_seed(dates) ==
    [cash |-> INITIAL_CAPITAL * UNITS, positions |-> <<>>, trades |-> <<>>,
     history |-> <<>>]

\* Lines 209-212: the state a call starts from.
FreshRun(dates) ==
    [cash |-> INITIAL_CAPITAL * UNITS, positions |-> <<>>, trades |-> <<>>,
     history |-> <<[date |-> dates[1], equity |-> INITIAL_CAPITAL * UNITS,
                    cash |-> INITIAL_CAPITAL * UNITS, positions |-> 0]>>]

(* ---------------------------- the evaluator --------------------------- *)
\* Line 310 and 313: pct_change().dropna() of a curve, as exact fractions.
PctChange(curve) ==
    [i \in 1..(Len(curve) - 1) |-> Frac(curve[i + 1] - curve[i], curve[i])]

\* Lines 321 and 328: "x.std() and not np.isnan(x.std())" is false. The sample
\* standard deviation is NaN for fewer than two returns and exactly 0.0 when
\* every return is 0.0. Returns that agree on another value leave a deviation
\* that depends on the rounding of their mean: that case is not decided here.
StdZeroOrNaN(returns) ==
    \/ Len(returns) < 2
    \/ \A i \in 1..Len(returns) : returns[i].num = 0

\* A ratio computed without looking at the deviation.
GuardedRatio_unguarded(std_zero_or_nan, quotient) == quotient

\* Lines 319-323 and 326-330: an annualised ratio, in thousandths; quotient is
\* the value of sqrt(252) * mean / std.
GuardedRatio(std_zero_or_nan, quotient) == IF std_zero_or_nan THEN 0 ELSE quotient

\* Lines 324-328: the deviation of strat_aligned - bench_aligned (both series
\* carry the same dates) is NaN or 0.0 for certain when there are fewer than two
\* differences or both series are 0.0 throughout.
ActiveStdZeroOrNaN(strategy_returns, benchmark_returns) ==
    StdZeroOrNaN(strategy_returns) /\ StdZeroOrNaN(benchmark_returns)

\* Line 325: the sign of each difference strat_aligned - bench_aligned.
ActiveSigns(strategy_returns, benchmark_returns) ==
    [i \in 1..Len(strategy_returns) |->
        Sign(strategy_returns[i].num * benchmark_returns[i].den
               - benchmark_returns[i].num * strategy_returns[i].den)]

\* Lines 320 and 327: the values sqrt(252) * mean / std may take, rounded to
\* thousandths, for a series whose terms have these signs. The magnitude is
\* not computed: sizes stands for the sizes it may have. With a deviation that
\* is zero or NaN the quotient is NaN; terms of one sign give the mean that
\* sign; terms of both signs leave the sign of the mean open.
Quotients(signs, std_zero_or_nan, sizes) ==
    IF std_zero_or_nan THEN {NaN}
    ELSE IF \A i \in 1..Len(signs) : signs[i] >= 0 THEN sizes
    ELSE IF \A i \in 1..Len(signs) : signs[i] <= 0 THEN {0 - q : q \in sizes}
    ELSE sizes \cup {0} \cup {0 - q : q \in sizes}

\* Lines 310 and 313.
StrategyReturns(history) == PctChange([i \in 1..Len(history) |-> history[i].equity])
BenchmarkReturns(benchmark_close, dates) ==
    PctChange([i \in 1..Len(dates) |-> benchmark_close[dates[i]]])

\* Line 320: the values of the Sharpe quotient of a run.
SharpeQuotients(history, sizes) ==
    Quotients([i \in 1..(Len(history) - 1) |-> Sign(StrategyReturns(history)[i].num)],
              StdZeroOrNaN(StrategyReturns(history)), sizes)

\* Line 327: the values of the information-ratio quotient of a run.
InfoQuotients(history, dates, benchmark_close, sizes) ==
    Quotients(ActiveSigns(StrategyReturns(history),
                          BenchmarkReturns(benchmark_close, dates)),
              ActiveStdZeroOrNaN(StrategyReturns(history),
                                 BenchmarkReturns(benchmark_close, dates)),
              sizes)

\* Line 312: the benchmark curve on the simulated dates, as fractions of a
\* dollar: close on the date / benchmark_close.iloc[0] * INITIAL_CAPITAL.
BenchmarkCurve(benchmark_close, dates) ==
    [i \in 1..Len(dates) |->
        Frac(benchmark_close[dates[i]] * INITIAL_CAPITAL, benchmark_close[1])]

\* Lines 308-348: the results a run may return. Percentages are in hundredths
\* of a percent, final_equity in cents, the two ratios in thousandths. One
\* hundredth of a percent of INITIAL_CAPITAL is INITIAL_CAPITAL / 10000 dollar.
Evaluations(history, trades, dates, benchmark_close, sizes) ==
    LET strategy_curve == [i \in 1..Len(history) |-> history[i].equity]
        strategy_returns == StrategyReturns(history)
        benchmark_returns == BenchmarkReturns(benchmark_close, dates)
        benchmark_curve == BenchmarkCurve(benchmark_close, dates)
        final == Last(strategy_curve)
        bp == (INITIAL_CAPITAL * UNITS) \div BPS_PER_ONE
        bench_last == Last(benchmark_curve)
        \* (final / INITIAL_CAPITAL - 1) * 100 * 100
        strategy_num == final - INITIAL_CAPITAL * UNITS
        \* (benchmark_curve[-1] / INITIAL_CAPITAL - 1) * 100 * 100
        bench_num == (BPS_PER_ONE \div INITIAL_CAPITAL)
                        * (bench_last.num - INITIAL_CAPITAL * bench_last.den)
    IN  [start_date : {dates[1]},
         end_date : {Last(dates)},
         initial_capital : {INITIAL_CAPITAL},
         final_equity : RoundChoices(final, UNITS \div 100),
         strategy_return_pct : RoundChoices(strategy_num, bp),
         benchmark_return_pct : RoundChoices(bench_num, bench_last.den),
         excess_return_pct :
             RoundChoices(strategy_num * bench_last.den - bench_num * bp,
                          bp * bench_last.den),
         strategy_sharpe :
             {GuardedRatio(StdZeroOrNaN(strategy_returns), quotient) :
                 quotient \in SharpeQuotients(history, sizes)},
         information_ratio :
             {GuardedRatio(ActiveStdZeroOrNaN(strategy_returns, benchmark_returns),
                           quotient) :
                 quotient \in InfoQuotients(history, dates, benchmark_close, sizes)},
         trades : {Len(trades)}]

\* A read of the score of the date itself instead of the date before it.
BarAt_same_day(table, dates, i) ==
    [signal |-> table[dates[i]].score, open |-> table[dates[i]].open,
     close |-> table[dates[i]].close]

\* Lines 217-218, 254 and 257: the cells of the table a date reads: the score of
\* the date before it in dates, its own open and close.
BarAt(table, dates, i) ==
    [signal |-> table[dates[i - 1]].score, open |-> table[dates[i]].open,
     close |-> table[dates[i]].close]

\* Lines 216-306: the dates at positions lo..hi of the date loop, in order. The
\* stretch is walked in halves, the first half to its end (where the history
\* is never empty) before the second: the same walk as date by date.
RECURSIVE SimulateSpan(_, _, _, _, _, _, _)
SimulateSpan(run, lo, hi, dates, keys, table, entry_thr) ==
    IF lo > hi THEN run
    ELSE IF lo = hi
    THEN SimulateDate(run, dates[lo], keys, BarAt(table, dates, lo),
                      entry_thr, MAX_POSITION_PCT, STOP_LOSS_PCT)
    ELSE LET mid == (lo + hi) \div 2
             first == SimulateSpan(run, lo, mid, dates, keys, table, entry_thr)
         IN  IF first.history = <<>> THEN first
             ELSE SimulateSpan(first, mid + 1, hi, dates, keys, table, entry_thr)

\* Lines 216-306: the date loop from position i on.
SimulateLoop(run, i, dates, keys, table, entry_thr) ==
    SimulateSpan(run, i, Len(dates), dates, keys, table, entry_thr)

\* Lines 209-306: the run of one call on at least two dates and one symbol, up
\* to the evaluator.
SimulateRun(dates, keys, table, entry_thr) ==
    SimulateLoop(FreshRun(dates), 2, dates, keys, table, entry_thr)

(* -------------------- _select_threshold_for_train --------------------- *)
\* Line 376: best_metrics = None.
None == [start_date |-> 0]
\* Line 377: float("-inf"), below every score.
MinusInfinity == 0 - 2147483647

\* Line 385: strategy_sharpe + excess_return_pct / 100.0, in ten-thousandths.
\* Both terms are multiples of a ten-thousandth far below 2^53 of them.
TrainScore(metrics) == metrics.strategy_sharpe * 10 + metrics.excess_return_pct

\* An update that also takes a threshold that only equals the best so far.
Consider_last_wins(best, threshold, metrics) ==
    IF best.metrics = None \/ TrainScore(metrics) >= best.score
    THEN [threshold |-> threshold, metrics |-> metrics, score |-> TrainScore(metrics)]
    ELSE best

\* Lines 385-389: one threshold's metrics against the best so far.
Consider(best, threshold, metrics) ==
    IF best.metrics = None \/ TrainScore(metrics) > best.score
    THEN [threshold |-> threshold, metrics |-> metrics, score |-> TrainScore(metrics)]
    ELSE best

\* Lines 375-390: the loop over the grid from position k on; metrics_of[k] is
\* what the training run of threshold_grid[k] returns.
RECURSIVE SelectLoop(_, _, _, _)
SelectLoop(best, k, threshold_grid, metrics_of) ==
    IF k > Len(threshold_grid) THEN best
    ELSE SelectLoop(Consider(best, threshold_grid[k], metrics_of[k]), k + 1,
                    threshold_grid, metrics_of)

(* ------------------- one call of _simulate_on_dates ------------------- *)
VARIABLES
    pc,               \* where the call stands
    feed,             \* which table the call is given (see Bars)
    dates,            \* the dates argument: positions in the calendar
    symbol_data,      \* the keys of the symbol table, in insertion order
    entry_threshold, max_position_pct, stop_loss_pct,
    index,            \* position in dates of the date being simulated
    signal,           \* features.loc[prev_date]["score"] of each symbol
    open,             \* open.loc[date] of each symbol
    close,            \* close.loc[date] of each symbol
    cash, positions, history, trades,
    equity, candidates,
    benchmark_close,  \* the benchmark series, once the evaluator has read it
    results,
    row,              \* the row score_row is called on
    scores,           \* what the calls of score_row on row have returned
    sel,              \* where the call of _select_threshold_for_train stands
    table,            \* symbol_data: per calendar date the score, open and close
    train_dates, threshold_grid,
    best,             \* best_threshold, best_metrics and best_score
    tried,            \* the training runs made so far, in order
    selected,         \* what the call returns
    drv,              \* where the run of run_backtest / run_walk_forward_backtest stands
    mode,             \* "single" or "walk_forward"
    train_days, test_days, step_days,
    grid_arg,         \* the threshold_grid argument
    provider,         \* what yf.download has to give
    raw,              \* what fetch_data returned
    all_dates,        \* the benchmark calendar
    window_index,     \* index of the window loop
    windows,          \* the window records appended so far
    error,            \* the message of the RuntimeError raised
    calls,            \* the calls of _simulate_on_dates made so far
    pol,              \* where the call of evaluate_pretrade_policy stands
    request,          \* the arguments of the order
    config,           \* the ROBIN_* environment settings
    broker,           \* what the account, the broker and the feeds have to give
    checks,           \* the checks list of evaluate_pretrade_policy
    blocked_by,       \* the name of the first check that failed
    locals,           \* the local values evaluate_pretrade_policy has computed
    policy,           \* what evaluate_pretrade_policy returned
    srv,              \* where the call of the order tool stands
    tool,             \* "execute_order" or "execute_crypto_order"
    placed,           \* the orders handed to the broker so far
    response          \* what the tool returned

\* The arguments of the call.
args == <<feed, dates, symbol_data, entry_threshold, max_position_pct, stop_loss_pct>>

sim_vars == <<pc, args, index, signal, open, close, cash, positions, history, trades,
              equity, candidates, benchmark_close, results>>
score_vars == <<row, scores>>
sel_vars == <<sel, table, train_dates, threshold_grid, best, tried, selected>>
run_vars == <<drv, mode, train_days, test_days, step_days, grid_arg, provider, raw,
              all_dates, window_index, windows, error, calls>>
order_vars == <<pol, request, config, broker, checks, blocked_by, locals, policy, srv,
                tool, placed, response>>
vars == <<sim_vars, score_vars, sel_vars, run_vars, order_vars>>
\* What a call of _simulate_on_dates does not touch.
beyond_sim == <<score_vars, sel_vars, run_vars, order_vars>>

\* The values a table cell is drawn from. The first symbol may lack a score
\* and may open too dear for one share; the second may score below the
\* threshold or above the first, may open at zero, may close higher and may
\* close at zero.
ScoreVals(symbol) == IF symbol = SYMBOLS[1] THEN {NaN, 75} ELSE {60, 75, 90}
OpenVals(symbol) == IF symbol = SYMBOLS[1] THEN {100, 2000} ELSE {0, 100}
CloseVals(symbol) == IF symbol = SYMBOLS[1] THEN {92, 93} ELSE {0, 92, 93, 110}
\* The sizes a ratio with a usable deviation is given, in thousandths.
QuotientVals == {1500}

Symbols == Range(symbol_data)

\* The values of one column of the table for one symbol.
CellVals(column, symbol) ==
    CASE column = "signal" -> ScoreVals(symbol)
      [] column = "open" -> OpenVals(symbol)
      [] column = "close" -> CloseVals(symbol)

\* The functions that give each symbol of the table one value of a column.
PerSymbol(column) ==
    {f \in [Symbols -> UNION {CellVals(column, s) : s \in Symbols}] :
        \A s \in Symbols : f[s] \in CellVals(column, s)}

\* The rows of the table at one date. A "rich" table holds any values; a
\* "penny" table scores every symbol 75 and prices it at one dollar; a "flat"
\* table prices every symbol alike and scores all symbols or none, and on a
\* date of its choice every scored symbol closes at 180.
Bars ==
    IF feed = "rich"
    THEN [signal : PerSymbol("signal"), open : PerSymbol("open"),
          close : PerSymbol("close")]
    ELSE IF feed = "penny"
    THEN {[signal |-> [s \in Symbols |-> 75], open |-> [s \in Symbols |-> 1],
           close |-> [s \in Symbols |-> 1]]}
    ELSE {[signal |-> [s \in Symbols |-> v], open |-> [s \in Symbols |-> 100],
           close |-> [s \in Symbols |-> 93]] : v \in {NaN, 75}}
         \cup {[signal |-> [s \in Symbols |-> 75], open |-> [s \in Symbols |-> 100],
                close |-> [s \in Symbols |-> 180]]}

\* The contiguous stretches of a calendar of n dates, the empty one included.
DateRanges(n) ==
    {<<>>} \cup {[i \in 1..(b - a + 1) |-> a + i - 1] : a \in 1..n, b \in 1..n}

Calls ==
    [feed : {"rich"}, symbol_data : {<<>>, SubSeq(SYMBOLS, 1, 2)},
     dates : DateRanges(MaxDates)]
    \cup [feed : {"flat"}, symbol_data : {SubSeq(SYMBOLS, 1, MAX_OPEN_POSITIONS + 1)},
          dates : {[i \in 1..CapDates |-> i]}]
    \cup [feed : {"penny"}, symbol_data : {SubSeq(SYMBOLS, 1, 1)},
          dates : {[i \in 1..MaxDates |-> i]}]

NoResults == [start_date |-> 0]

NoRaw == [rows |-> 0, bench |-> <<>>, series |-> <<>>]
NoRequest == [symbol |-> ""]
NoPolicy == [allowed |-> FALSE, blocked_by |-> "", checks |-> <<>>]
NoResponse == [success |-> FALSE, returned |-> FALSE]
NoGrid == [is_none |-> TRUE, list |-> <<>>]

\* No order tool and no evaluation of the pre-trade policy is in progress.
OrderIdle ==
    /\ pol = "idle"
    /\ request = NoRequest
    /\ config = <<>>
    /\ broker = <<>>
    /\ checks = <<>>
    /\ blocked_by = "None"
    /\ locals = <<>>
    /\ policy = NoPolicy
    /\ srv = "idle"
    /\ tool = "none"
    /\ placed = <<>>
    /\ response = NoResponse

\* No run of run_backtest or run_walk_forward_backtest is in progress.
RunIdle ==
    /\ drv = "idle"
    /\ mode = "none"
    /\ train_days = 0 /\ test_days = 0 /\ step_days = 0
    /\ grid_arg = NoGrid
    /\ provider = NoRaw
    /\ raw = NoRaw
    /\ all_dates = <<>>
    /\ window_index = 0
    /\ windows = <<>>
    /\ error = ""
    /\ calls = <<>>

\* No call of _select_threshold_for_train is in progress.
SelIdle ==
    /\ sel = "idle"
    /\ table = <<>>
    /\ train_dates = <<>>
    /\ threshold_grid = <<>>
    /\ best = [threshold |-> 0, metrics |-> None, score |-> MinusInfinity]
    /\ tried = <<>>
    /\ selected = [threshold |-> 0, metrics |-> None]

Init ==
    \E call \in Calls :
        /\ pc = "call"
        /\ feed = call.feed
        /\ dates = call.dates
        /\ symbol_data = call.symbol_data
        /\ entry_threshold = ENTRY_THRESHOLD
        /\ max_position_pct = MAX_POSITION_PCT
        /\ stop_loss_pct = STOP_LOSS_PCT
        /\ index = 0
        /\ signal = [s \in Range(call.symbol_data) |-> NaN]
        /\ open = [s \in Range(call.symbol_data) |-> 0]
        /\ close = [s \in Range(call.symbol_data) |-> 0]
        /\ cash = 0
        /\ positions = <<>>
        /\ history = <<>>
        /\ trades = <<>>
        /\ equity = 0
        /\ candidates = <<>>
        /\ benchmark_close = <<>>
        /\ results = NoResults
        /\ row = <<>>
        /\ scores = <<>>
        /\ SelIdle
        /\ RunIdle
        /\ OrderIdle

\* Lines 204-213: the two checks, then the fresh state of the run.
Setup ==
    /\ pc = "call"
    /\ IF Rejects(dates, symbol_data)
       THEN /\ pc' = "raised"
            /\ UNCHANGED <<index, cash, positions, history, trades>>
       ELSE /\ pc' = "loop"
            /\ index' = 1
            /\ cash' = FreshRun(dates).cash
            /\ positions' = FreshRun(dates).positions
            /\ history' = FreshRun(dates).history
            /\ trades' = FreshRun(dates).trades
    /\ UNCHANGED <<beyond_sim, args, benchmark_close, signal, open, close, equity,
                   candidates, results>>

\* Lines 216-218: the loop takes the next date; the rows it will read are the
\* table's rows for prev_date (signal) and date (open, close).
NextDate ==
    /\ pc = "loop"
    /\ index < Len(dates)
    /\ index' = index + 1
    /\ \E bar \in Bars :
         /\ signal' = bar.signal
         /\ open' = bar.open
         /\ close' = bar.close
    /\ pc' = "exits"
    /\ UNCHANGED <<beyond_sim, args, benchmark_close, cash, positions, history, trades, equity,
                   candidates, results>>

\* Lines 220-240: mark to market and exit on the current close.
MarkAndExit ==
    /\ pc = "exits"
    /\ LET after == MarkAndExitPhase(cash, positions, trades, close, dates[index],
                                     stop_loss_pct)
       IN  /\ cash' = after.cash
           /\ positions' = after.positions
           /\ trades' = after.trades
    /\ pc' = "select"
    /\ UNCHANGED <<beyond_sim, args, benchmark_close, index, signal, open, close, history, equity,
                   candidates, results>>

\* A selection that sizes the entries on the equity of the snapshot before.
SelectCandidates_snapshot_equity ==
    /\ pc = "select"
    /\ equity' = Last(history).equity
    /\ candidates' = BuildCandidates(symbol_data, positions, signal, open,
                                     entry_threshold)
    /\ pc' = "enter"
    /\ UNCHANGED <<beyond_sim, args, benchmark_close, index, signal, open, close, cash, positions,
                   history, trades, results>>

\* Lines 242-262: today's equity and the sorted candidate list.
SelectCandidates ==
    /\ pc = "select"
    /\ equity' = MarkToMarket(cash, positions, close)
    /\ candidates' = BuildCandidates(symbol_data, positions, signal, open,
                                     entry_threshold)
    /\ pc' = "enter"
    /\ UNCHANGED <<beyond_sim, args, benchmark_close, index, signal, open, close, cash, positions,
                   history, trades, results>>

\* Lines 264-300: enter at the current open.
EnterPositions ==
    /\ pc = "enter"
    /\ LET after == EnterPhase(cash, positions, trades, candidates, equity,
                               max_position_pct, dates[index])
       IN  /\ cash' = after.cash
           /\ positions' = after.positions
           /\ trades' = after.trades
    /\ pc' = "snapshot"
    /\ UNCHANGED <<beyond_sim, args, benchmark_close, index, signal, open, close, history, equity,
                   candidates, results>>

\* Lines 302-306: the end-of-day snapshot; back to the loop head.
Snapshot ==
    /\ pc = "snapshot"
    /\ history' = Append(history, SnapshotOf(dates[index], cash, positions, close))
    /\ pc' = "loop"
    /\ UNCHANGED <<beyond_sim, args, benchmark_close, index, signal, open, close, cash, positions,
                   trades, equity, candidates, results>>

\* Line 216: range(1, len(dates)) is used up; the rows of the last date are
\* out of use.
LoopEnd ==
    /\ pc = "loop"
    /\ index = Len(dates)
    /\ signal' = [s \in Symbols |-> NaN]
    /\ open' = [s \in Symbols |-> 0]
    /\ close' = [s \in Symbols |-> 0]
    /\ pc' = "evaluate"
    /\ UNCHANGED <<beyond_sim, args, benchmark_close, index, cash, positions, history, trades, equity,
                   candidates, results>>

\* The benchmark series a call may be given, one close per calendar date: the
\* flat ones and the ones that step up once.
BenchmarkSeries ==
    IF feed = "rich"
    THEN {[i \in 1..MaxDates |-> IF i <= k THEN 3 ELSE 4] : k \in 0..MaxDates}
    ELSE {[i \in 1..CapDates |-> 4]}

\* Lines 308-348: the evaluator reads the benchmark series and builds the
\* result.
Finish ==
    /\ pc = "evaluate"
    /\ \E series \in BenchmarkSeries :
         /\ benchmark_close' = series
         /\ results' \in Evaluations(history, trades, dates, series, QuotientVals)
    /\ pc' = "done"
    /\ UNCHANGED <<beyond_sim, args, index, signal, open, close, cash, positions,
                   history, trades, equity, candidates>>

Next ==
    \/ Setup
    \/ NextDate
    \/ MarkAndExit
    \/ SelectCandidates
    \/ EnterPositions
    \/ Snapshot
    \/ LoopEnd
    \/ Finish

Spec == Init /\ [][Next]_vars

\* The call is one thread of control: until it has returned or raised it goes
\* on to another program point. (Every step of Next moves pc.)
ProgramPoints ==
    {"call", "loop", "exits", "select", "enter", "snapshot", "evaluate", "done",
     "raised"}
Advance == pc \notin {"done", "raised"} /\ pc' \in ProgramPoints \ {pc}
LiveSpec == Spec /\ WF_pc(Advance)

(* ------------------------ calls of score_row -------------------------- *)
\* The numbers of a row, on both sides of every threshold score_row reads.
RowValues ==
    [Close : {1}, High : {1}, Low : {1}, Volume : {1}, sma_50 : {1}, sma_200 : {1},
     atr_14 : {1}, vol_20d_avg : {1},
     ret_5d : {0, 1}, ret_20d : {0, 1}, dist_sma_50 : {0, 1}, dist_sma_200 : {0, 1},
     rsi_14 : {44, 45, 50, 51, 70, 71}, atr_pct : {3, 4},
     rel_vol : {12, 13, 18, 19}, vol_20d : {25, 26, 35, 36, 45, 46}]

\* The rows: fully defined, one cell undefined, every cell undefined.
Rows ==
    [value : RowValues, isna : {{}} \cup {{c} : c \in Columns} \cup {Columns}]

\* No call of the simulator is in progress.
SimIdle ==
    /\ pc = "idle"
    /\ feed = "none"
    /\ dates = <<>>
    /\ symbol_data = <<>>
    /\ entry_threshold = ENTRY_THRESHOLD
    /\ max_position_pct = MAX_POSITION_PCT
    /\ stop_loss_pct = STOP_LOSS_PCT
    /\ index = 0
    /\ signal = <<>>
    /\ open = <<>>
    /\ close = <<>>
    /\ cash = 0
    /\ positions = <<>>
    /\ history = <<>>
    /\ trades = <<>>
    /\ equity = 0
    /\ candidates = <<>>
    /\ benchmark_close = <<>>
    /\ results = NoResults

InitScore ==
    /\ SimIdle
    /\ SelIdle
    /\ RunIdle
    /\ OrderIdle
    /\ row \in Rows
    /\ scores = <<>>

\* Line 182: features.apply(score_row, axis=1) calls score_row on the row.
CallScoreRow ==
    /\ Len(scores) < MaxCalls
    /\ scores' = Append(scores, ScoreRow(row))
    /\ UNCHANGED <<sim_vars, sel_vars, run_vars, order_vars, row>>

NextScore == CallScoreRow

SpecScore == InitScore /\ [][NextScore]_vars

(* ---------------- calls of _select_threshold_for_train ---------------- *)
\* Line 400: sorted(set(...)) of a non-empty list over the default thresholds.
Grids == {<<65>>, <<70>>, <<75>>, <<65, 70>>, <<65, 75>>, <<70, 75>>, <<65, 70, 75>>}

\* The rows of a one-symbol table: the symbol scores above the grid, between
\* its thresholds or not at all; a share opens at 800 and closes a little or a
\* lot higher, or below the stop of a position entered at that open.
TableRows ==
    [score : {[s \in {SYMBOLS[1]} |-> v] : v \in {NaN, 68, 72, 90}},
     open : {[s \in {SYMBOLS[1]} |-> 800]},
     close : {[s \in {SYMBOLS[1]} |-> v] : v \in {700, 801, 900}}]
QuietRow ==
    [score |-> [s \in {SYMBOLS[1]} |-> NaN], open |-> [s \in {SYMBOLS[1]} |-> 800],
     close |-> [s \in {SYMBOLS[1]} |-> 801]]

\* Lines 416-419: a train window all_dates[index:split], from the first
\* calendar date or the second, of a calendar that goes on for one more date.
TrainWindows ==
    {[i \in 1..n |-> offset + i] : offset \in {0, 1}, n \in 2..MaxTrainDays}
CalendarOf(window) == 1..(Last(window) + 1)

\* The tables on the calendar of a window. The cells the call does not read
\* are quiet: the rows outside the window, the open and close of its first
\* date, the score of its last date. The close stays low until the last date
\* of the window.
TablesOn(window) ==
    {t \in [CalendarOf(window) -> TableRows] :
        /\ \A d \in CalendarOf(window) \ {Last(window)} : t[d].close = QuietRow.close
        /\ \A d \in CalendarOf(window) \ Range(window) : t[d] = QuietRow
        /\ t[Last(window)].score = QuietRow.score}

\* The benchmark series: 4 throughout, or 3 on the first calendar date.
BenchmarksOn(window) ==
    {[d \in CalendarOf(window) |-> IF d = 1 THEN first ELSE 4] : first \in {3, 4}}

InitSel ==
    /\ pc = "idle"
    /\ feed = "none"
    /\ dates = <<>>
    /\ symbol_data = <<SYMBOLS[1]>>
    /\ entry_threshold = ENTRY_THRESHOLD
    /\ max_position_pct = MAX_POSITION_PCT
    /\ stop_loss_pct = STOP_LOSS_PCT
    /\ index = 0
    /\ signal = <<>>
    /\ open = <<>>
    /\ close = <<>>
    /\ cash = 0
    /\ positions = <<>>
    /\ history = <<>>
    /\ trades = <<>>
    /\ equity = 0
    /\ candidates = <<>>
    /\ results = NoResults
    /\ row = <<>>
    /\ scores = <<>>
    /\ sel = "call"
    /\ train_dates \in TrainWindows
    /\ table \in TablesOn(train_dates)
    /\ benchmark_close \in BenchmarksOn(train_dates)
    /\ threshold_grid \in Grids
    /\ best = [threshold |-> 0, metrics |-> None, score |-> MinusInfinity]
    /\ tried = <<>>
    /\ selected = [threshold |-> 0, metrics |-> None]
    /\ RunIdle
    /\ OrderIdle

\* Lines 375-377.
SelectStart ==
    /\ sel = "call"
    /\ best' = [threshold |-> threshold_grid[1], metrics |-> None,
                score |-> MinusInfinity]
    /\ sel' = "loop"
    /\ UNCHANGED <<sim_vars, score_vars, run_vars, order_vars, table, train_dates, threshold_grid, tried,
                   selected>>

\* Lines 378-389: the training run of the next threshold and the update of the
\* best. Two runs with the same history return the same.
SelectTry ==
    /\ sel = "loop"
    /\ Len(tried) < Len(threshold_grid)
    /\ LET threshold == threshold_grid[Len(tried) + 1]
           run == SimulateRun(train_dates, symbol_data, table, threshold)
           same == {j \in 1..Len(tried) : tried[j].history = run.history}
       IN  \E metrics \in Evaluations(run.history, run.trades, train_dates,
                                      benchmark_close, QuotientVals) :
             /\ \A j \in same : tried[j].metrics = metrics
             /\ best' = Consider(best, threshold, metrics)
             /\ tried' = Append(tried,
                                [threshold |-> threshold, metrics |-> metrics,
                                 history |-> run.history, trades |-> run.trades])
    /\ UNCHANGED <<sim_vars, score_vars, run_vars, order_vars, sel, table, train_dates, threshold_grid,
                   selected>>

\* Line 390: return best_threshold, best_metrics or {}.
SelectReturn ==
    /\ sel = "loop"
    /\ Len(tried) = Len(threshold_grid)
    /\ selected' = [threshold |-> best.threshold, metrics |-> best.metrics]
    /\ sel' = "returned"
    /\ UNCHANGED <<sim_vars, score_vars, run_vars, order_vars, table, train_dates, threshold_grid, best,
                   tried>>

NextSel ==
    \/ SelectStart
    \/ SelectTry
    \/ SelectReturn

SpecSel == InitSel /\ [][NextSel]_vars

(* ------------ run_backtest and run_walk_forward_backtest -------------- *)
\* sorted(set(...)): the members in increasing order.
RECURSIVE SortAsc(_)
SortAsc(members) ==
    IF members = {} THEN <<>>
    ELSE LET least == CHOOSE m \in members : \A other \in members : m <= other
         IN  <<least>> \o SortAsc(members \ {least})

\* A grid that takes the argument as it is given.
GridOf_as_given(argument) == SortAsc(Range(argument.list))

\* Line 400: sorted(set(int(x) for x in (threshold_grid or [65, 70, 75]))). None
\* and the empty list are both false.
GridOf(argument) ==
    SortAsc(Range(IF argument.is_none \/ argument.list = <<>>
                  THEN DEFAULT_GRID ELSE argument.list))

\* A floor check that lets a short step through.
FloorsBroken_no_step(train, test, step) ==
    train < MIN_TRAIN_DAYS \/ test < MIN_TEST_DAYS

\* Line 403.
FloorsBroken(train, test, step) ==
    train < MIN_TRAIN_DAYS \/ test < MIN_TEST_DAYS \/ step < MIN_STEP_DAYS

\* Line 408: len(all_dates) < train_days + test_days + 1.
HistoryTooShort(n_dates, train, test) == n_dates < train + test + 1

\* A loop that goes on while a train window alone still fits.
WindowFits_train_only(start, train, test, n_dates) == start + train <= n_dates

\* Line 415: the condition of the window loop.
WindowFits(start, train, test, n_dates) == start + train + test <= n_dates

\* Line 419: all_dates[index:split].
TrainDates(start, train) == [i \in 1..train |-> start + i]
\* Line 420: all_dates[split - 1:test_end], cut at the end of the calendar.
TestDates(start, train, test, n_dates) ==
    [i \in 1..(Min(start + train + test, n_dates) - (start + train) + 1) |->
        start + train - 1 + i]

\* ffill(): the last place in lo..hi where the column is defined, 0 when there
\* is none. (The later half of the stretch is searched first.)
RECURSIVE LastDefined(_, _, _, _)
LastDefined(bars, column, lo, hi) ==
    IF lo > hi THEN 0
    ELSE IF lo = hi THEN (IF bars[lo][column] # NaN THEN lo ELSE 0)
    ELSE LET mid == (lo + hi) \div 2
             later == LastDefined(bars, column, mid + 1, hi)
         IN  IF later # 0 THEN later ELSE LastDefined(bars, column, lo, mid)

\* Lines 185-187: reindex(dates).ffill() of one column of one symbol, at place d.
Filled(bars, column, d) ==
    LET e == LastDefined(bars, column, 1, d)
    IN  IF e = 0 THEN NaN ELSE bars[e][column]

\* A loader that gives up the symbols after the first one that fails.
Usable_until_failure(series) ==
    LET Fails(s) == series[s].status # "ok"
        first == IF \E i \in 1..Len(SYMBOLS) : Fails(SYMBOLS[i])
                 THEN CHOOSE i \in 1..Len(SYMBOLS) :
                        /\ Fails(SYMBOLS[i])
                        /\ \A j \in 1..(i - 1) : ~Fails(SYMBOLS[j])
                 ELSE Len(SYMBOLS) + 1
    IN  SubSeq(SYMBOLS, 1, first - 1)

\* Lines 173-190: the symbols that get into the table, in the order of SYMBOLS;
\* a symbol whose extraction or features raise is skipped.
Usable(series) ==
    LET Loads(s) == series[s].status = "ok"
    IN  SelectSeq(SYMBOLS, Loads)

\* Lines 184-188: the table of the usable symbols on the benchmark calendar.
TableOf(series, keys, n_dates) ==
    [d \in 1..n_dates |->
        [score |-> [s \in Range(keys) |-> Filled(series[s].bars, "score", d)],
         open |-> [s \in Range(keys) |-> Filled(series[s].bars, "open", d)],
         close |-> [s \in Range(keys) |-> Filled(series[s].bars, "close", d)]]]

\* Line 359: sorted(symbol_data.keys()).
SymbolsConsidered(keys) ==
    LET Kept(s) == s \in Range(keys)
    IN  SelectSeq(SORTED_SYMBOLS, Kept)

\* The record of one call of _simulate_on_dates: its arguments, the state it
\* started from and where it ended.
CallRecord(dates_arg, entry_thr, run) ==
    [first |-> dates_arg[1], last |-> Last(dates_arg), entry_threshold |-> entry_thr,
     start |-> FreshRun(dates_arg), trades |-> run.trades,
     final |-> Last(run.history)]

\* Lines 378-384: the training runs of the thresholds from place k of the grid
\* on, one per threshold, in order.
RECURSIVE TrainingRuns(_, _, _, _, _)
TrainingRuns(k, dates_arg, grid, keys, tab) ==
    IF k > Len(grid) THEN <<>>
    ELSE <<SimulateRun(dates_arg, keys, tab, grid[k])>>
            \o TrainingRuns(k + 1, dates_arg, grid, keys, tab)

\* Lines 379-384: what each of the runs from place k on may return.
RECURSIVE TrainingEvaluations(_, _, _, _)
TrainingEvaluations(k, runs, dates_arg, bench) ==
    IF k > Len(runs) THEN <<>>
    ELSE <<Evaluations(runs[k].history, runs[k].trades, dates_arg, bench,
                       QuotientVals)>>
            \o TrainingEvaluations(k + 1, runs, dates_arg, bench)

\* Lines 379-384: what the training runs may return together; runs with the
\* same history return the same.
TrainingMetrics(runs, dates_arg, bench) ==
    LET evals == TrainingEvaluations(1, runs, dates_arg, bench)
    IN  {f \in [DOMAIN runs -> UNION Range(evals)] :
            /\ \A k \in DOMAIN runs : f[k] \in evals[k]
            /\ \A j, k \in DOMAIN runs :
                  runs[j].history = runs[k].history => f[j] = f[k]}

\* Lines 436-452: the record of a window (without the drawdown, which the
\* evaluator above leaves out).
WindowRecord(train, test, chosen, oos) ==
    [train_start |-> train[1], train_end |-> Last(train),
     test_start |-> test[2], test_end |-> Last(test),
     selected_entry_threshold |-> chosen.threshold,
     train_strategy_sharpe |-> chosen.metrics.strategy_sharpe,
     train_excess_return_pct |-> chosen.metrics.excess_return_pct,
     oos_strategy_return_pct |-> oos.strategy_return_pct,
     oos_benchmark_return_pct |-> oos.benchmark_return_pct,
     oos_excess_return_pct |-> oos.excess_return_pct,
     oos_strategy_sharpe |-> oos.strategy_sharpe,
     oos_information_ratio |-> oos.information_ratio,
     oos_trades |-> oos.trades]

\* The bars the provider has for a symbol on a calendar of n dates: no score
\* before WARM_UP; from then on a score below every threshold, but for the
\* WARM_UP date (above the default threshold) and the date after it, on which
\* the first symbol has no bar at all. The other symbols score above every
\* threshold on both dates.
BarsOf(symbol, n_dates) ==
    [d \in 1..n_dates |->
        IF d = WARM_UP + 1 /\ symbol = SYMBOLS[1]
        THEN [score |-> NaN, open |-> NaN, close |-> NaN]
        ELSE [score |-> IF d < WARM_UP THEN NaN
                        ELSE IF d <= WARM_UP + 1
                        THEN (IF symbol = SYMBOLS[1] THEN 72 ELSE 90)
                        ELSE 50,
              open |-> 800, close |-> 801]]

\* The sets of symbols the provider has good data for: none, or the first and
\* the third.
Supplies == {{}, {SYMBOLS[1], SYMBOLS[3]}}

\* What yf.download may return: nothing, or a benchmark of about
\* MIN_BENCHMARK_DATES closes (3 on the first date, 4 after it) with the bars
\* of the symbols it has; of the others, every second has no column and the
\* rest have columns that calculate_features cannot use.
Providers ==
    {NoRaw} \cup
    {[rows |-> n,
      bench |-> [d \in 1..n |-> IF d = 1 THEN 3 ELSE 4],
      series |-> [s \in Range(SYMBOLS) |->
                    IF s \in good
                    THEN [status |-> "ok", bars |-> BarsOf(s, n)]
                    ELSE [status |-> IF \E i \in 1..Len(SYMBOLS) :
                                          SYMBOLS[i] = s /\ i % 2 = 0
                                     THEN "missing" ELSE "malformed",
                          bars |-> <<>>]]] :
        n \in (MIN_BENCHMARK_DATES - 1)..(MIN_BENCHMARK_DATES + MaxSpare),
        good \in Supplies}

\* The threshold_grid arguments: None, the empty list, an unsorted list with a
\* repeated member.
GridArguments ==
    {NoGrid, [is_none |-> FALSE, list |-> <<>>],
     [is_none |-> FALSE, list |-> <<75, 65, 75>>]}

\* The calls: run_backtest(), and run_walk_forward_backtest() with windows at
\* and below the floors, a step shorter than the test range and as long as it,
\* and a train window that leaves room for exactly one window or none.
RunCalls ==
    {[mode |-> "single", train_days |-> 0, test_days |-> 0, step_days |-> 0,
      grid_arg |-> NoGrid]}
    \cup [mode : {"walk_forward"},
          train_days : {MIN_TRAIN_DAYS - 1, MIN_TRAIN_DAYS,
                        MIN_BENCHMARK_DATES - MIN_TEST_DAYS},
          test_days : {MIN_TEST_DAYS - 1, MIN_TEST_DAYS},
          step_days : {MIN_STEP_DAYS - 1, MIN_STEP_DAYS, MIN_TEST_DAYS},
          grid_arg : GridArguments]

InitRun ==
    /\ pc = "idle"
    /\ feed = "none"
    /\ dates = <<>>
    /\ symbol_data = <<>>
    /\ entry_threshold = ENTRY_THRESHOLD
    /\ max_position_pct = MAX_POSITION_PCT
    /\ stop_loss_pct = STOP_LOSS_PCT
    /\ index = 0
    /\ signal = <<>>
    /\ open = <<>>
    /\ close = <<>>
    /\ cash = 0
    /\ positions = <<>>
    /\ history = <<>>
    /\ trades = <<>>
    /\ equity = 0
    /\ candidates = <<>>
    /\ benchmark_close = <<>>
    /\ results = NoResults
    /\ row = <<>>
    /\ scores = <<>>
    /\ SelIdle
    /\ OrderIdle
    /\ drv = "call"
    /\ \E call \in RunCalls :
         /\ mode = call.mode
         /\ train_days = call.train_days
         /\ test_days = call.test_days
         /\ step_days = call.step_days
         /\ grid_arg = call.grid_arg
    /\ provider \in Providers
    /\ raw = NoRaw
    /\ all_dates = <<>>
    /\ window_index = 0
    /\ windows = <<>>
    /\ error = ""
    /\ calls = <<>>

\* What a step of a run leaves alone besides the variables it names.
beyond_run == <<pc, feed, dates, entry_threshold, max_position_pct, stop_loss_pct,
                index, signal, open, close, cash, positions, history, trades, equity,
                candidates, score_vars, sel, train_dates, best, tried, selected,
                mode, train_days, test_days, step_days, grid_arg, provider, order_vars>>

Raise(message) ==
    /\ drv' = "raised"
    /\ error' = message

\* Lines 400-404: the grid and the floors, checked before any data is fetched.
Validate ==
    /\ drv = "call"
    /\ mode = "walk_forward"
    /\ threshold_grid' = GridOf(grid_arg)
    /\ IF GridOf(grid_arg) = <<>>
       THEN Raise("threshold_grid must contain at least one threshold.")
       ELSE IF FloorsBroken(train_days, test_days, step_days)
       THEN Raise("Use realistic windows: train_days>=120, test_days>=20, step_days>=10.")
       ELSE drv' = "validated" /\ error' = error
    /\ UNCHANGED <<beyond_run, symbol_data, table, benchmark_close, results, raw,
                   all_dates, window_index, windows, calls>>

\* Lines 59-65: fetch_data.
Fetch ==
    /\ \/ drv = "call" /\ mode = "single"
       \/ drv = "validated"
    /\ IF provider.rows = 0
       THEN Raise("No market data returned.") /\ raw' = raw
       ELSE drv' = "fetched" /\ raw' = provider /\ error' = error
    /\ UNCHANGED <<beyond_run, symbol_data, table, benchmark_close, threshold_grid,
                   results, all_dates, window_index, windows, calls>>

\* Lines 166-192: _build_symbol_data.
Build ==
    /\ drv = "fetched"
    /\ IF raw.rows < MIN_BENCHMARK_DATES
       THEN /\ Raise("Insufficient benchmark history for robust metrics.")
            /\ UNCHANGED <<symbol_data, table, benchmark_close, all_dates>>
       ELSE /\ drv' = "built"
            /\ error' = error
            /\ benchmark_close' = raw.bench
            /\ all_dates' = [i \in 1..raw.rows |-> i]
            /\ symbol_data' = Usable(raw.series)
            /\ table' = TableOf(raw.series, Usable(raw.series), raw.rows)
    /\ UNCHANGED <<beyond_run, threshold_grid, results, raw, window_index, windows,
                   calls>>

\* Lines 350-365: run_backtest simulates the whole calendar.
RunSingle ==
    /\ drv = "built"
    /\ mode = "single"
    /\ IF Rejects(all_dates, symbol_data)
       THEN /\ Raise(IF Len(all_dates) < 2 THEN "Need at least two dates to simulate."
                     ELSE "No symbols with usable data.")
            /\ UNCHANGED <<results, calls>>
       ELSE LET run == SimulateRun(all_dates, symbol_data, table, ENTRY_THRESHOLD)
            IN  /\ \E metrics \in Evaluations(run.history, run.trades, all_dates,
                                              benchmark_close, QuotientVals) :
                      results' = [mode |-> "single", metrics |-> metrics,
                                  start_date |-> all_dates[1],
                                  end_date |-> Last(all_dates),
                                  symbols_considered |-> SymbolsConsidered(symbol_data),
                                  windows |-> 0]
                /\ calls' = Append(calls, CallRecord(all_dates, ENTRY_THRESHOLD, run))
                /\ drv' = "returned"
                /\ error' = error
    /\ UNCHANGED <<beyond_run, symbol_data, table, benchmark_close, threshold_grid,
                   raw, all_dates, window_index, windows>>

\* Lines 408-411: the two checks before the window loop.
CheckHistory ==
    /\ drv = "built"
    /\ mode = "walk_forward"
    /\ IF HistoryTooShort(Len(all_dates), train_days, test_days)
       THEN Raise("Insufficient history for requested walk-forward windows.")
       ELSE IF symbol_data = <<>>
       THEN Raise("No symbols with usable data.")
       ELSE drv' = "windows" /\ error' = error
    /\ window_index' = 0
    /\ windows' = <<>>
    /\ UNCHANGED <<beyond_run, symbol_data, table, benchmark_close, threshold_grid,
                   results, raw, all_dates, calls>>

\* Lines 415-454: one pass of the window loop: the training runs, the choice of
\* the threshold, the out-of-sample run and the record.
Window ==
    /\ drv = "windows"
    /\ WindowFits(window_index, train_days, test_days, Len(all_dates))
    /\ LET train == TrainDates(window_index, train_days)
           test == TestDates(window_index, train_days, test_days, Len(all_dates))
           runs == TrainingRuns(1, train, threshold_grid, symbol_data, table)
       IN  IF Len(test) < 2
           THEN /\ drv' = "summary"
                /\ UNCHANGED <<window_index, windows, calls>>
           ELSE \E metrics_of \in TrainingMetrics(runs, train, benchmark_close) :
                  LET chosen == SelectLoop([threshold |-> threshold_grid[1],
                                            metrics |-> None, score |-> MinusInfinity],
                                           1, threshold_grid, metrics_of)
                      oos_run == SimulateRun(test, symbol_data, table, chosen.threshold)
                  IN  \E oos \in Evaluations(oos_run.history, oos_run.trades, test,
                                             benchmark_close, QuotientVals) :
                        /\ windows' = Append(windows,
                                             WindowRecord(train, test, chosen, oos))
                        /\ calls' = calls
                              \o [k \in 1..Len(threshold_grid) |->
                                    CallRecord(train, threshold_grid[k], runs[k])]
                              \o <<CallRecord(test, chosen.threshold, oos_run)>>
                        /\ window_index' = window_index + step_days
                        /\ drv' = drv
    /\ UNCHANGED <<beyond_run, symbol_data, table, benchmark_close, threshold_grid,
                   results, raw, all_dates, error>>

\* Lines 456-519: the loop is over; without a window the run raises, with
\* windows it returns the summary. (Of the summary, the figures compounded and
\* averaged over the windows are left out.)
Summary ==
    /\ \/ drv = "summary"
       \/ /\ drv = "windows"
          /\ ~WindowFits(window_index, train_days, test_days, Len(all_dates))
    /\ IF windows = <<>>
       THEN /\ Raise("No valid walk-forward windows could be produced.")
            /\ results' = results
       ELSE /\ drv' = "returned"
            /\ error' = error
            /\ results' =
                 [mode |-> "walk_forward", metrics |-> None,
                  start_date |-> all_dates[1], end_date |-> Last(all_dates),
                  symbols_considered |-> SymbolsConsidered(symbol_data),
                  windows |-> Len(windows)]
    /\ UNCHANGED <<beyond_run, symbol_data, table, benchmark_close, threshold_grid,
                   raw, all_dates, window_index, windows, calls>>

NextRun ==
    \/ Validate
    \/ Fetch
    \/ Build
    \/ RunSingle
    \/ CheckHistory
    \/ Window
    \/ Summary

SpecRun == InitRun /\ [][NextRun]_vars

(* ------------------------ the pre-trade policy ------------------------ *)
\* src/pretrade_policy.py. Money is in whole dollars, quantities in whole
\* shares, the percentage limits in hundredths. A value that may be None (or
\* missing from a dict) is a sequence: <<>> for None, <<v>> for the value v.

\* Line 14.
DEFAULT_HARD_EXCLUDE_SYMBOLS == {"AMD", "AVGO", "CEG", "GOOG", "NVDA", "SLV"}
\* Lines 108-114: the defaults of the limits, in hundredths.
MAX_DAILY_LOSS_PCT == 3
MAX_ORDER_NOTIONAL_PCT == 15
MAX_SYMBOL_EXPOSURE_PCT == 30
MAX_PENDING_ORDERS_PER_SYMBOL == 3
SENTIMENT_CONFIDENCE_FLOOR == 45
PCT_PER_ONE == 100

\* str.upper().strip() and str.lower().strip() on the strings of the model.
Upper(text) ==
    CASE text = "ceg" -> "CEG"
      [] text = " aapl" -> "AAPL"
      [] OTHER -> text
Lower(text) ==
    CASE text = "BUY" -> "buy"
      [] text = "Sell" -> "sell"
      [] text = "Stock" -> "stock"
      [] OTHER -> text

\* Lines 17-23: _to_float.
ToFloat(value, default) == IF value = <<>> THEN default ELSE value[1]

\* Lines 56-67: _first_quote_price: the first positive price of the quote, 0.0
\* when there is none or the request fails.
FirstQuotePrice(brk, symbol_up) ==
    IF symbol_up \in DOMAIN brk.quotes THEN Max(0, brk.quotes[symbol_up]) ELSE 0

\* Lines 70-77: _resolve_open_order_symbol.
ResolveOpenOrderSymbol(order) ==
    IF Upper(order.symbol) # "" THEN Upper(order.symbol) ELSE Upper(order.instrument)

\* Lines 104-106.
AssetClassOf(req) ==
    LET asset_class_lc == Lower(req.asset_class)
    IN  IF asset_class_lc \notin {"stock", "crypto"} THEN "stock" ELSE asset_class_lc

\* Lines 121-125: add_check (the detail text of a check is left out).
AddCheck(st, name, passed) ==
    [st EXCEPT !.checks = Append(@, [name |-> name,
                                     status |-> IF passed THEN "pass" ELSE "fail"]),
               !.blocked_by = IF ~passed /\ @ = "None" THEN name ELSE @]

\* A gate that leaves sell orders alone.
HardExcludeHit_buys_only(req, cfg) ==
    /\ AssetClassOf(req) = "stock"
    /\ Lower(req.side) = "buy"
    /\ cfg.enable_hard_exclude
    /\ Upper(req.symbol) \in cfg.hard_exclude_symbols

\* Lines 128-132.
HardExcludeHit(req, cfg) ==
    /\ AssetClassOf(req) = "stock"
    /\ cfg.enable_hard_exclude
    /\ Upper(req.symbol) \in cfg.hard_exclude_symbols

\* Lines 102-141: the normalised arguments and the first check.
HardExcludePhase(req, cfg) ==
    LET hit == HardExcludeHit(req, cfg)
        start == [checks |-> <<>>, blocked_by |-> "None",
                  locals |-> [symbol_up |-> Upper(req.symbol),
                              side_lc |-> Lower(req.side),
                              asset_class_lc |-> AssetClassOf(req),
                              hard_exclude_hit |-> hit]]
    IN  AddCheck(start, "hard_exclude_list", ~hit)

\* Lines 174-178: the equity held in the symbol.
RECURSIVE SymbolEquityNow(_, _)
SymbolEquityNow(holdings, symbol_up) ==
    IF holdings = <<>> THEN 0
    ELSE (IF Upper(Head(holdings).symbol) = symbol_up
          THEN ToFloat(Head(holdings).equity, 0) ELSE 0)
         + SymbolEquityNow(Tail(holdings), symbol_up)

\* Line 207.
RECURSIVE IntradaySum(_)
IntradaySum(holdings) ==
    IF holdings = <<>> THEN 0
    ELSE ToFloat(Head(holdings).intraday_profit_loss, 0) + IntradaySum(Tail(holdings))

\* Lines 143-178: what the account, the holdings, the open orders and the
\* market calendar give (a request that raises gives the empty value), and the
\* figures of the order.
GatherPhase(st, req, brk) ==
    LET account == brk.account
        buying_power == ToFloat(account.buying_power, 0)
        market_value == ToFloat(account.market_value, 0)
        equity_read == ToFloat(account.equity, 0)
        price_given == ToFloat(req.price, 0)
        ref_price == IF price_given <= 0
                     THEN FirstQuotePrice(brk, st.locals.symbol_up) ELSE price_given
    IN  [st EXCEPT !.locals = @ @@
           [open_orders |-> IF @.asset_class_lc = "stock" THEN brk.open_orders
                            ELSE <<>>,
            equity |-> IF equity_read <= 0 THEN Max(0, buying_power + market_value)
                       ELSE equity_read,
            buying_power |-> buying_power,
            market_value |-> market_value,
            equity_previous_close |-> ToFloat(account.equity_previous_close, 0),
            account_data_available |-> account.loaded,
            session |-> brk.session,
            reference_price |-> ref_price,
            order_notional |-> Max(0, ToFloat(<<req.qty>>, 0) * ref_price),
            symbol_equity_now |-> SymbolEquityNow(brk.holdings, @.symbol_up),
            intraday_pl_open_positions |-> IntradaySum(brk.holdings)]]

\* A sum of the pending buys of the order's symbol only.
RECURSIVE PendingLoop_symbol_only(_, _, _, _)
PendingLoop_symbol_only(sums, orders, symbol_up, brk) ==
    IF orders = <<>> THEN sums
    ELSE LET order == Head(orders)
             order_symbol == ResolveOpenOrderSymbol(order)
             counted == IF order_symbol = symbol_up
                        THEN [sums EXCEPT !.pending_for_symbol = @ + 1] ELSE sums
             qty_open == ToFloat(order.quantity, 0)
             price_read == ToFloat(order.price, 0)
             order_price == IF price_read <= 0 /\ order_symbol # ""
                            THEN FirstQuotePrice(brk, order_symbol) ELSE price_read
             order_notional_open == Max(0, qty_open * order_price)
         IN  PendingLoop_symbol_only(
               IF Lower(order.side) # "buy" \/ qty_open <= 0 \/ order_symbol # symbol_up
               THEN counted
               ELSE [counted EXCEPT
                       !.pending_buy_notional_total = @ + order_notional_open,
                       !.pending_buy_notional_symbol = @ + order_notional_open],
               Tail(orders), symbol_up, brk)

\* Lines 183-200: the loop over the open orders.
RECURSIVE PendingLoop(_, _, _, _)
PendingLoop(sums, orders, symbol_up, brk) ==
    IF orders = <<>> THEN sums
    ELSE LET order == Head(orders)
             order_symbol == ResolveOpenOrderSymbol(order)
             counted == IF order_symbol = symbol_up
                        THEN [sums EXCEPT !.pending_for_symbol = @ + 1] ELSE sums
             qty_open == ToFloat(order.quantity, 0)
             price_read == ToFloat(order.price, 0)
             order_price == IF price_read <= 0 /\ order_symbol # ""
                            THEN FirstQuotePrice(brk, order_symbol) ELSE price_read
             order_notional_open == Max(0, qty_open * order_price)
         IN  PendingLoop(
               IF Lower(order.side) # "buy" \/ qty_open <= 0
               THEN counted
               ELSE [counted EXCEPT
                       !.pending_buy_notional_total = @ + order_notional_open,
                       !.pending_buy_notional_symbol =
                           IF order_symbol = symbol_up THEN @ + order_notional_open
                           ELSE @],
               Tail(orders), symbol_up, brk)

\* Lines 179-200.
PendingPhase(st, brk) ==
    LET sums == PendingLoop([pending_for_symbol |-> 0,
                             pending_buy_notional_total |-> 0,
                             pending_buy_notional_symbol |-> 0],
                            st.locals.open_orders, st.locals.symbol_up, brk)
    IN  [st EXCEPT !.locals = @ @@ sums]

\* Lines 202-275: the figures of the account and the six checks on them.
AccountChecksPhase(st, cfg) ==
    LET loc == st.locals
        is_stock_buy == loc.side_lc = "buy" /\ loc.asset_class_lc = "stock"
        available_buying_power ==
            Max(0, loc.buying_power - loc.pending_buy_notional_total)
        after == loc.symbol_equity_now + loc.pending_buy_notional_symbol
                 + (IF loc.side_lc = "buy" THEN loc.order_notional
                    ELSE 0 - loc.order_notional)
        symbol_equity_after == IF after < 0 THEN 0 ELSE after
        from_close == loc.equity_previous_close > 0 /\ loc.equity > 0
        daily_pnl_total == IF from_close THEN loc.equity - loc.equity_previous_close
                           ELSE loc.intraday_pl_open_positions
        daily_loss_breach ==
            /\ loc.equity > 0
            /\ daily_pnl_total * PCT_PER_ONE <= 0 - loc.equity * cfg.max_daily_loss_pct
        figures == [st EXCEPT !.locals = @ @@
                      [available_buying_power |-> available_buying_power,
                       symbol_equity_after |-> symbol_equity_after,
                       daily_pnl_total |-> daily_pnl_total,
                       daily_pnl_source |-> IF from_close THEN "equity_vs_previous_close"
                                            ELSE "open_positions_intraday_sum"]]
        c1 == AddCheck(figures, "account_data_required",
                       ~is_stock_buy \/ loc.account_data_available)
        c2 == AddCheck(c1, "buying_power",
                       \/ ~is_stock_buy
                       \/ /\ loc.account_data_available
                          /\ available_buying_power >= loc.order_notional)
        c3 == AddCheck(c2, "daily_loss_limit",
                       \/ ~is_stock_buy
                       \/ loc.account_data_available /\ ~daily_loss_breach)
        c4 == AddCheck(c3, "order_notional_limit",
                       \/ ~is_stock_buy
                       \/ ~loc.account_data_available
                       \/ loc.equity <= 0
                       \/ loc.order_notional * PCT_PER_ONE
                             <= loc.equity * cfg.max_order_notional_pct)
        c5 == AddCheck(c4, "symbol_exposure_limit",
                       \/ ~is_stock_buy
                       \/ ~loc.account_data_available
                       \/ loc.equity <= 0
                       \/ symbol_equity_after * PCT_PER_ONE
                             <= loc.equity * cfg.max_symbol_exposure_pct)
    IN  AddCheck(c5, "pending_order_limit",
                 \/ loc.asset_class_lc # "stock"
                 \/ loc.pending_for_symbol < cfg.max_pending_orders_per_symbol)

\* Lines 277-292: the market session.
SessionPhase(st, req) ==
    LET loc == st.locals
        session_lc == Lower(loc.session)
        session_ok ==
            IF /\ loc.asset_class_lc = "stock"
               /\ session_lc # ""
               /\ session_lc # "unknown"
               /\ ~req.extended_hours
               /\ req.order_type = "market"
               /\ loc.side_lc = "buy"
            THEN session_lc = "regular"
            ELSE TRUE
    IN  AddCheck(st, "market_session", session_ok)

\* Lines 294-336: the sentiment guardrail: for a stock buy the snapshot is
\* asked for; a row blocks when its hype risk is high on low confidence, no
\* row or a failed request block when the guardrail fails closed.
SentimentPhase(st, cfg, brk) ==
    LET loc == st.locals
        feel == brk.sentiment
    IN  IF cfg.enable_sentiment_guardrail /\ loc.side_lc = "buy"
           /\ loc.asset_class_lc = "stock"
        THEN CASE feel.kind = "raises" ->
                    AddCheck(st, "sentiment_guardrail", ~cfg.sentiment_fail_closed)
               [] feel.kind = "empty" ->
                    AddCheck(st, "sentiment_guardrail", ~cfg.sentiment_fail_closed)
               [] OTHER ->
                    AddCheck(st, "sentiment_guardrail",
                             ~(/\ feel.hype_risk = "high"
                               /\ ToFloat(feel.confidence, 0)
                                     < cfg.sentiment_confidence_floor))
        ELSE IF cfg.enable_sentiment_guardrail /\ loc.side_lc = "buy"
        THEN AddCheck(st, "sentiment_guardrail", TRUE)
        ELSE st

\* Lines 338-382: the dict returned (without the reason text and the limits;
\* of the metrics, the fields the checks are made of).
ReturnPolicy(st) ==
    [allowed |-> st.blocked_by = "None",
     blocked_by |-> st.blocked_by,
     checks |-> st.checks,
     metrics |-> [symbol |-> st.locals.symbol_up,
                  asset_class |-> st.locals.asset_class_lc,
                  side |-> st.locals.side_lc,
                  reference_price |-> st.locals.reference_price,
                  order_notional |-> st.locals.order_notional,
                  equity |-> st.locals.equity,
                  buying_power |-> st.locals.buying_power,
                  available_buying_power |-> st.locals.available_buying_power,
                  pending_buy_notional_total |-> st.locals.pending_buy_notional_total,
                  pending_buy_notional_symbol |-> st.locals.pending_buy_notional_symbol,
                  symbol_equity_before |-> st.locals.symbol_equity_now,
                  symbol_equity_after |-> st.locals.symbol_equity_after,
                  hard_exclude_hit |-> st.locals.hard_exclude_hit]]

\* Lines 80-382: evaluate_pretrade_policy as a whole.
EvaluatePretradePolicy(req, cfg, brk) ==
    ReturnPolicy(
        SentimentPhase(
            SessionPhase(
                AccountChecksPhase(
                    PendingPhase(GatherPhase(HardExcludePhase(req, cfg), req, brk), brk),
                    cfg),
                req),
            cfg, brk))

\* The open orders the broker may hold: stretches of this book of at most
\* MaxOpenOrders orders. The book has buys and a sell of AAPL, one of them
\* named by its instrument only, a buy of MSFT without a price and a buy of
\* no shares.
OpenOrderBook ==
    <<[symbol |-> "AAPL", instrument |-> "", side |-> "buy", quantity |-> <<4>>,
       price |-> <<20>>],
      [symbol |-> "MSFT", instrument |-> "", side |-> "buy", quantity |-> <<2>>,
       price |-> <<>>],
      [symbol |-> "", instrument |-> " aapl", side |-> "BUY", quantity |-> <<1>>,
       price |-> <<30>>],
      [symbol |-> "AAPL", instrument |-> "", side |-> "Sell", quantity |-> <<5>>,
       price |-> <<20>>],
      [symbol |-> "MSFT", instrument |-> "", side |-> "buy", quantity |-> <<0>>,
       price |-> <<20>>]>>
OpenOrderLists ==
    {SubSeq(OpenOrderBook, a, b) :
        a \in 1..Len(OpenOrderBook), b \in 0..Min(MaxOpenOrders, Len(OpenOrderBook))}

\* The account profiles: none (the request raised or gave {}), one with every
\* figure, one with buying power only.
Accounts ==
    {[loaded |-> FALSE, equity |-> <<>>, equity_previous_close |-> <<>>,
      buying_power |-> <<>>, market_value |-> <<>>],
     [loaded |-> TRUE, equity |-> <<1000>>, equity_previous_close |-> <<1000>>,
      buying_power |-> <<100>>, market_value |-> <<0>>],
     [loaded |-> TRUE, equity |-> <<>>, equity_previous_close |-> <<>>,
      buying_power |-> <<1000>>, market_value |-> <<>>]}

Holdings ==
    {<<[symbol |-> "AAPL", equity |-> <<200>>, intraday_profit_loss |-> <<0 - 40>>]>>}

Sentiments ==
    {[kind |-> "raises", hype_risk |-> "", confidence |-> <<>>],
     [kind |-> "row", hype_risk |-> "low", confidence |-> <<30>>]}

\* What the account, the broker and the feeds have to give. reply is what the
\* broker answers to an order, session_up whether get_session succeeds.
Brokers(replies, ups) ==
    [account : Accounts, holdings : Holdings, open_orders : OpenOrderLists,
     quotes : {[s \in {"AAPL", "MSFT", "CEG"} |-> IF s = "CEG" THEN 0 ELSE 20]},
     session : {"regular", "closed"}, sentiment : Sentiments,
     session_up : ups, reply : replies]

\* Lines 108-116: the settings read from the environment: the defaults, with or
\* without the hard exclusion and the sentiment guardrail.
Configs ==
    [enable_hard_exclude : BOOLEAN,
     hard_exclude_symbols : {DEFAULT_HARD_EXCLUDE_SYMBOLS},
     enable_sentiment_guardrail : BOOLEAN,
     sentiment_fail_closed : {TRUE},
     sentiment_confidence_floor : {SENTIMENT_CONFIDENCE_FLOOR},
     max_daily_loss_pct : {MAX_DAILY_LOSS_PCT},
     max_order_notional_pct : {MAX_ORDER_NOTIONAL_PCT},
     max_symbol_exposure_pct : {MAX_SYMBOL_EXPOSURE_PCT},
     max_pending_orders_per_symbol : {MAX_PENDING_ORDERS_PER_SYMBOL}]

\* The orders: a market order without a price or a limit order at 20.
Requests(symbols, quantities, sides, classes) ==
    {[symbol |-> s, qty |-> q, side |-> d, order_type |-> t.order_type,
      price |-> t.price, extended_hours |-> FALSE, asset_class |-> c] :
        s \in symbols, q \in quantities, d \in sides, c \in classes,
        t \in {[order_type |-> "market", price |-> <<>>],
               [order_type |-> "limit", price |-> <<20>>]}}

NoServer == srv = "idle" /\ tool = "none" /\ placed = <<>> /\ response = NoResponse

InitPolicy ==
    /\ SimIdle
    /\ SelIdle
    /\ RunIdle
    /\ row = <<>>
    /\ scores = <<>>
    /\ pol = "call"
    /\ request \in Requests({"AAPL", "MSFT", "ceg"}, {2, 6}, {"buy", "Sell"},
                            {"stock", "crypto"})
    /\ config \in Configs
    /\ broker \in Brokers({"none"}, {TRUE})
    /\ checks = <<>>
    /\ blocked_by = "None"
    /\ locals = <<>>
    /\ policy = NoPolicy
    /\ NoServer

PolicyState == [checks |-> checks, blocked_by |-> blocked_by, locals |-> locals]
beyond_policy == <<sim_vars, score_vars, sel_vars, run_vars, request, config, broker,
                   srv, tool, placed, response>>
\* The checks, blocked_by and the locals become those of st.
Becomes(st) ==
    /\ checks' = st.checks
    /\ blocked_by' = st.blocked_by
    /\ locals' = st.locals

HardExclude ==
    /\ pol = "call"
    /\ pol' = "gather"
    /\ Becomes(HardExcludePhase(request, config))
    /\ UNCHANGED <<beyond_policy, policy>>

Gather ==
    /\ pol = "gather"
    /\ pol' = "pending"
    /\ Becomes(GatherPhase(PolicyState, request, broker))
    /\ UNCHANGED <<beyond_policy, policy>>

Pending ==
    /\ pol = "pending"
    /\ pol' = "account"
    /\ Becomes(PendingPhase(PolicyState, broker))
    /\ UNCHANGED <<beyond_policy, policy>>

AccountChecks ==
    /\ pol = "account"
    /\ pol' = "session"
    /\ Becomes(AccountChecksPhase(PolicyState, config))
    /\ UNCHANGED <<beyond_policy, policy>>

MarketSession ==
    /\ pol = "session"
    /\ pol' = "sentiment"
    /\ Becomes(SessionPhase(PolicyState, request))
    /\ UNCHANGED <<beyond_policy, policy>>

Sentiment ==
    /\ pol = "sentiment"
    /\ pol' = "return"
    /\ Becomes(SentimentPhase(PolicyState, config, broker))
    /\ UNCHANGED <<beyond_policy, policy>>

Return ==
    /\ pol = "return"
    /\ pol' = "returned"
    /\ policy' = ReturnPolicy(PolicyState)
    /\ UNCHANGED <<beyond_policy, checks, blocked_by, locals>>

NextPolicy ==
    \/ HardExclude
    \/ Gather
    \/ Pending
    \/ AccountChecks
    \/ MarketSession
    \/ Sentiment
    \/ Return

SpecPolicy == InitPolicy /\ [][NextPolicy]_vars

(* --------------------------- the order tools -------------------------- *)
\* src/server.py, src/orders.py and src/crypto.py.

\* What the broker may answer to an order: a dict with an id, a dict with an
\* error detail, a dict without an id, None, or an exception.
Replies == {"accepted", "detail", "no_id", "none", "raises"}

\* src/orders.py lines 15-27: validate_order raises (stop orders are not
\* among the orders of the model).
OrderInvalid(req) ==
    \/ req.side \notin {"buy", "sell"}
    \/ req.order_type = "limit" /\ req.price = <<>>
    \/ req.qty <= 0

\* src/crypto.py lines 53-70: place_crypto_order raises instead of ordering.
CryptoOrderInvalid(req) ==
    \/ req.side \notin {"buy", "sell"}
    \/ req.order_type \notin {"market", "limit"}
    \/ req.order_type = "limit" /\ req.price = <<>>

\* Lines 41-66: _extract_api_error finds an error text in the payload.
ExtractApiError(payload) == payload = "detail"

\* Lines 69-78: _validate_order_response, the success flag.
ValidateOrderResponse(payload) ==
    /\ ~ExtractApiError(payload)
    /\ payload # "none"
    /\ payload # "no_id"

\* Lines 335-357 and 936-958: the dict returned once the broker has answered;
\* result.get("id") raises when the answer is None. The dict has no policy key.
AnswerOf(payload) ==
    IF payload = "none"
    THEN [returned |-> TRUE, success |-> FALSE, error |-> "exception",
          policy_attached |-> FALSE]
    ELSE [returned |-> TRUE, success |-> ValidateOrderResponse(payload),
          error |-> IF ValidateOrderResponse(payload) THEN "" ELSE "api_error",
          policy_attached |-> FALSE]

\* Lines 358-364 and 959-965: the dict returned from the except branch.
Failure ==
    [returned |-> TRUE, success |-> FALSE, error |-> "exception",
     policy_attached |-> FALSE]

\* src/orders.py lines 35-63 and src/crypto.py lines 53-68: the order handed to
\* robin_stocks.
Handed(book, name, req) ==
    Append(book, [tool |-> name, symbol |-> Upper(req.symbol), qty |-> req.qty,
                  side |-> req.side, order_type |-> req.order_type])

InitOrder ==
    /\ SimIdle
    /\ SelIdle
    /\ RunIdle
    /\ row = <<>>
    /\ scores = <<>>
    /\ pol = "idle"
    /\ checks = <<>>
    /\ blocked_by = "None"
    /\ locals = <<>>
    /\ policy = NoPolicy
    /\ srv = "call"
    /\ tool \in {"execute_order", "execute_crypto_order"}
    /\ request \in Requests({"AAPL", "ceg"}, {0, 2}, {"buy", "sell"},
                            {IF tool = "execute_order" THEN "stock" ELSE "crypto"})
    /\ config \in Configs
    /\ broker \in {b \in Brokers(Replies, BOOLEAN) :
                     b.open_orders = <<>> /\ b.session = "regular"}
    /\ placed = <<>>
    /\ response = NoResponse

beyond_order == <<sim_vars, score_vars, sel_vars, run_vars, pol, request, config,
                  broker, checks, blocked_by, locals, policy, tool>>

\* src/server.py lines 329-364: execute_order.
ExecuteOrder ==
    /\ srv = "call"
    /\ tool = "execute_order"
    /\ srv' = "returned"
    /\ IF ~broker.session_up \/ OrderInvalid(request)
       THEN placed' = placed /\ response' = Failure
       ELSE /\ placed' = Handed(placed, tool, request)
            /\ response' = IF broker.reply = "raises" THEN Failure
                           ELSE AnswerOf(broker.reply)
    /\ UNCHANGED beyond_order

\* src/server.py lines 932-965: execute_crypto_order.
ExecuteCryptoOrder ==
    /\ srv = "call"
    /\ tool = "execute_crypto_order"
    /\ srv' = "returned"
    /\ IF ~broker.session_up \/ CryptoOrderInvalid(request)
       THEN placed' = placed /\ response' = Failure
       ELSE /\ placed' = Handed(placed, tool, request)
            /\ response' = IF broker.reply = "raises" THEN Failure
                           ELSE AnswerOf(broker.reply)
    /\ UNCHANGED beyond_order

NextOrder ==
    \/ ExecuteOrder
    \/ ExecuteCryptoOrder

SpecOrder == InitOrder /\ [][NextOrder]_vars

(* ============================== claims ================================ *)
Today == dates[index]
TradesOn(ledger, date, side) ==
    {i \in 1..Len(ledger) : ledger[i].date = date /\ ledger[i].side = side}
BoughtOn(ledger, date) == {ledger[i].symbol : i \in TradesOn(ledger, date, "BUY")}

\* The symbols the pass over the current date buys when the closes of that date
\* are alt and every other input is as it is.
BoughtWithClose(alt) ==
    BoughtOn(SimulateDate([cash |-> cash, positions |-> positions, trades |-> trades,
                           history |-> history],
                          Today, symbol_data,
                          [signal |-> signal, open |-> open, close |-> alt],
                          entry_threshold, max_position_pct, stop_loss_pct).trades,
             Today)

\* C1 (no look-ahead): two runs that differ only in the Close values of one date
\* buy the same set of symbols on that date. (High and Low are not read by the
\* simulator at all.)
C1_NoLookAhead ==
    pc = "exits" /\ feed = "rich" =>
        \A alt \in PerSymbol("close") : BoughtWithClose(alt) = BoughtWithClose(close)

\* The value of the open positions at the closes of the current date.
PositionValue ==
    SeqSum([i \in 1..Len(positions) |->
               positions[i].qty * close[positions[i].symbol] * UNITS])

\* C2 (equity identity): the snapshot just appended has equity = cash + the sum
\* over the open positions of qty * close of that date, and counts the open
\* positions; the seed snapshot holds the initial capital and no position.
C2_EquityIdentity ==
    pc = "loop" =>
        /\ Len(history) = index
        /\ Last(history).date = Today
        /\ Last(history).cash = cash
        /\ Last(history).positions = Len(positions)
        /\ Last(history).equity =
              IF index = 1 THEN INITIAL_CAPITAL * UNITS ELSE cash + PositionValue

\* A snapshot taken after an exit and an entry, with a position open.
C2_Witness ==
    /\ pc = "loop"
    /\ positions # <<>>
    /\ TradesOn(trades, Today, "BUY") # {}
    /\ \E i \in 1..Len(trades) : trades[i].side = "SELL_STOP"
    /\ Last(history).equity # cash

\* The stop condition of a held position at the closes of the current date, in
\* hundredths of a unit: close <= entry_price * (1 - stop_loss_pct).
StopConditionHolds(position) ==
    100 * UNITS * close[position.symbol] <= (100 - stop_loss_pct) * position.entry_price
Survives(position) == ~StopConditionHolds(position)

\* C3 (stop-loss boundary): the exit phase closes exactly the positions whose
\* close is at or below entry_price * (1 - stop_loss_pct), each with one
\* SELL_STOP trade, and keeps the others as they are; with entry 100 and 8 % a
\* close of 92.01 keeps the position, 91.99 and 92.00 close it.
C3_StopLossBoundary ==
    /\ [][pc = "exits" =>
            /\ positions' = SelectSeq(positions, Survives)
            /\ Len(trades') = Len(trades) + Len(positions) - Len(positions')
            /\ SubSeq(trades', 1, Len(trades)) = trades
            /\ {trades'[i].symbol : i \in TradesOn(trades', Today, "SELL_STOP")}
                  = {positions[i].symbol :
                        i \in {j \in 1..Len(positions) : StopConditionHolds(positions[j])}}
        ]_vars
    /\ [](pc = "select" => \A i \in 1..Len(positions) : Survives(positions[i]))
    /\ [](/\ ~StopHit((9201 * UNITS) \div 100, 100 * UNITS, 8)
          /\ StopHit((9199 * UNITS) \div 100, 100 * UNITS, 8)
          /\ StopHit(92 * UNITS, 100 * UNITS, 8))

\* The exit phase has just closed a position on its stop.
C3_Witness ==
    /\ pc = "select"
    /\ TradesOn(trades, Today, "SELL_STOP") # {}

\* C4 (position cap): the number of open positions never exceeds
\* MAX_OPEN_POSITIONS, in the state of the run and in every snapshot.
C4_PositionCap ==
    /\ Len(positions) <= MAX_OPEN_POSITIONS
    /\ \A i \in 1..Len(history) : history[i].positions <= MAX_OPEN_POSITIONS

\* Every slot is taken at the end of a day on which a symbol that is not held
\* qualified for entry.
C4_Witness ==
    /\ pc = "loop"
    /\ Len(positions) = MAX_OPEN_POSITIONS
    /\ \E s \in Symbols \ Held(positions) :
          signal[s] # NaN /\ signal[s] >= entry_threshold /\ open[s] > 0

\* An unheld symbol whose previous-day score is defined and at or above the
\* threshold.
Qualifies(s) ==
    /\ s \notin Held(positions)
    /\ signal[s] # NaN
    /\ signal[s] >= entry_threshold

\* Spendable cash buys at least one share of s at today's open: the smaller of
\* max_position_pct of equity and cash less the 20 % buffer covers the fee and
\* one share at the open plus slippage (both sides in hundredths of a unit).
BuysOneShare(s) ==
    /\ open[s] > 0
    /\ 100 * (open[s] * (UNITS + 1) + FEE_PER_TRADE * UNITS)
          <= Min(max_position_pct * equity, 100 * cash - CASH_BUFFER_PCT * equity)

Feasible(s) == Qualifies(s) /\ BuysOneShare(s)
SlotFree == Len(positions) < MAX_OPEN_POSITIONS
Place(s) == CHOOSE i \in 1..Len(symbol_data) : symbol_data[i] = s
BoughtNow(s) ==
    \E i \in (Len(trades) + 1)..Len(trades') :
        /\ trades'[i].symbol = s
        /\ trades'[i].side = "BUY"
        /\ trades'[i].date = Today
        /\ trades'[i].price = Round4(open[s] * (UNITS + 1))

C6_Witness ==
    /\ pc = "snapshot"
    /\ signal[SYMBOLS[1]] = 75
    /\ signal[SYMBOLS[2]] < entry_threshold
    /\ BoughtOn(trades, Today) = {SYMBOLS[1]}
    /\ Held(positions) = {SYMBOLS[1]}
    /\ Len(trades) = 1

CurveIsConstant == \A i \in 1..(Len(history) - 1) : history[i + 1].equity = history[i].equity
BenchmarkIsConstant ==
    \A i \in 1..(Len(dates) - 1) : benchmark_close[dates[i + 1]] = benchmark_close[dates[i]]

\* C9 (ratio degeneracy): a finished run reports strategy_sharpe 0 when there
\* are fewer than two daily returns or the equity curve is constant, and
\* information_ratio 0 when moreover the benchmark is constant; a run without
\* a trade has a constant curve and so reports Sharpe 0; neither ratio is ever
\* NaN.
C9_RatioDegeneracy ==
    pc = "done" =>
        /\ results # NoResults
        /\ results.strategy_sharpe # NaN /\ results.information_ratio # NaN
        /\ (Len(history) < 3 \/ CurveIsConstant) => results.strategy_sharpe = 0
        /\ (Len(history) < 3 \/ (CurveIsConstant /\ BenchmarkIsConstant))
              => results.information_ratio = 0
        /\ trades = <<>> => CurveIsConstant /\ results.strategy_sharpe = 0

\* A run over three dates that never traded, against a benchmark that moved.
C9_Witness ==
    /\ pc = "done"
    /\ trades = <<>>
    /\ Len(history) >= 3
    /\ ~BenchmarkIsConstant
    /\ results.strategy_sharpe = 0

\* The rule table: the points of each rule and whether the rule applies.
RuleTable(v) ==
    <<
      \* momentum
      [points |-> 10, applies |-> v.dist_sma_50 > 0],
      [points |-> 8, applies |-> v.rsi_14 > 50],
      [points |-> 7, applies |-> v.ret_5d > 0],
      [points |-> 10, applies |-> v.ret_20d > 0],
      \* quality
      [points |-> 10, applies |-> v.dist_sma_200 > 0],
      [points |-> 8, applies |-> v.rsi_14 \in 45..70],
      [points |-> 7, applies |-> v.atr_pct < 4],
      \* catalyst
      [points |-> 12, applies |-> v.rel_vol > 18],
      [points |-> 8, applies |-> v.rel_vol > 12 /\ ~(v.rel_vol > 18)],
      [points |-> 8, applies |-> v.ret_5d > 0 /\ v.ret_20d > 0],
      \* regime
      [points |-> 20, applies |-> v.vol_20d <= 25 /\ v.ret_20d > 0],
      [points |-> 12, applies |-> v.vol_20d <= 35 /\ v.ret_20d > 0
                                    /\ ~(v.vol_20d <= 25 /\ v.ret_20d > 0)],
      [points |-> 6, applies |-> v.vol_20d <= 45
                                   /\ ~(v.vol_20d <= 35 /\ v.ret_20d > 0)]
    >>
RulePoints(v, from, to) ==
    SeqSum([i \in 1..(to - from + 1) |->
               IF RuleTable(v)[from + i - 1].applies
               THEN RuleTable(v)[from + i - 1].points ELSE 0])

\* C7 (score_row is the rule table, and pure): on a fully defined row every call
\* returns the sum of the points of the rules that apply, momentum at most 35,
\* quality at most 25, catalyst at most 20 and regime at most 20; all calls on
\* one row return the same value.
C7_ScoreIsRuleTable ==
    /\ \A i \in 1..Len(scores) :
          row.isna = {} => scores[i] = RulePoints(row.value, 1, 13)
    /\ \A i, j \in 1..Len(scores) : scores[i] = scores[j]
    /\ scores # <<>> =>
          /\ RulePoints(row.value, 1, 4) <= 35
          /\ RulePoints(row.value, 5, 7) <= 25
          /\ RulePoints(row.value, 8, 10) <= 20
          /\ RulePoints(row.value, 11, 13) <= 20

\* Two calls on a fully defined row in a calm regime with a falling 20-day
\* return: only the third regime rule applies.
C7_Witness ==
    /\ Len(scores) = 2
    /\ row.isna = {}
    /\ row.value.vol_20d = 25
    /\ row.value.ret_20d = 0
    /\ row.value.rsi_14 = 70
    /\ row.value.rel_vol = 13
    /\ row.value.atr_pct = 4
    /\ row.value.dist_sma_50 = 1
    /\ row.value.dist_sma_200 = 0
    /\ row.value.ret_5d = 1
    /\ scores = <<10 + 8 + 7 + 8 + 8 + 6, 10 + 8 + 7 + 8 + 8 + 6>>

\* C8 (score range, no partial scoring): a call returns NaN exactly when some
\* cell of the row is undefined and a value in 0..100 otherwise; the points of
\* the rule table never add up to more than 100 or less than 0.
C8_ScoreRange ==
    \A i \in 1..Len(scores) :
        /\ scores[i] = NaN <=> row.isna # {}
        /\ row.isna = {} => scores[i] \in 0..100
        /\ RulePoints(row.value, 1, 13) \in 0..100

\* A call on a row whose only undefined cell is one no rule reads, and which
\* would score 100 otherwise.
C8_Witness ==
    /\ scores # <<>>
    /\ row.isna = {"High"}
    /\ RulePoints(row.value, 1, 13) = 100
    /\ scores[1] = NaN

\* A call on a fully defined row that reaches the top of the range.
C8_TopWitness ==
    /\ scores # <<>>
    /\ row.isna = {}
    /\ scores[1] = 100

\* The training objective of a returned result, in ten-thousandths.
Objective(metrics) == 10 * metrics.strategy_sharpe + metrics.excess_return_pct
GridPlaces == 1..Len(threshold_grid)

\* C10 (threshold selection): the call makes one training run per threshold of
\* the grid, in grid order, and returns a threshold whose objective is the
\* largest of the grid, the smallest such threshold when several share the
\* largest objective, with the metrics of that threshold's run.
C10_ThresholdSelection ==
    sel = "returned" =>
        /\ Len(tried) = Len(threshold_grid)
        /\ \A k \in GridPlaces : tried[k].threshold = threshold_grid[k]
        /\ \E k \in GridPlaces :
              /\ selected.threshold = threshold_grid[k]
              /\ selected.metrics = tried[k].metrics
              /\ \A j \in GridPlaces :
                    /\ Objective(tried[j].metrics) <= Objective(tried[k].metrics)
                    /\ Objective(tried[j].metrics) = Objective(tried[k].metrics)
                          => threshold_grid[k] <= threshold_grid[j]

\* Of three thresholds the last two share the largest objective and the
\* second is returned.
C10_Witness ==
    /\ sel = "returned"
    /\ Len(threshold_grid) = 3
    /\ Objective(tried[1].metrics) < Objective(tried[2].metrics)
    /\ Objective(tried[2].metrics) = Objective(tried[3].metrics)
    /\ selected.threshold = threshold_grid[2]

\* The last threshold alone has the largest objective, with a Sharpe ratio
\* that is not zero, and is returned.
C10_LastWitness ==
    /\ sel = "returned"
    /\ Len(threshold_grid) = 3
    /\ Objective(tried[1].metrics) < Objective(tried[3].metrics)
    /\ Objective(tried[2].metrics) < Objective(tried[3].metrics)
    /\ tried[3].metrics.strategy_sharpe # 0
    /\ selected.threshold = threshold_grid[3]

\* The dates of the calendar outside the train window.
OutsideTrain == DOMAIN table \ Range(train_dates)
FirstBest == [threshold |-> threshold_grid[1], metrics |-> None, score |-> MinusInfinity]

\* The results the training run of threshold_grid[k] may return on a
\* benchmark series alt: its history is the one the call saw, so its Sharpe
\* ratio is the one the call saw.
MayReturn(k, alt) ==
    {m \in Evaluations(tried[k].history, tried[k].trades, train_dates, alt,
                       QuotientVals) :
        m.strategy_sharpe = tried[k].metrics.strategy_sharpe}

\* The thresholds the loop may end with from place k on, on the series alt.
RECURSIVE MaySelectLoop(_, _, _)
MaySelectLoop(bests, k, alt) ==
    IF k > Len(threshold_grid) THEN {b.threshold : b \in bests}
    ELSE MaySelectLoop({Consider(b, threshold_grid[k], m) :
                           b \in bests, m \in MayReturn(k, alt)},
                       k + 1, alt)
MaySelect(alt) == MaySelectLoop({FirstBest}, 1, alt)

\* A table alt_table gives every training run the history and trades the call
\* saw, hence the same results and the same threshold.
SameRuns(alt_table) ==
    \A k \in GridPlaces :
        LET run == SimulateRun(train_dates, symbol_data, alt_table, threshold_grid[k])
        IN  run.history = tried[k].history /\ run.trades = tried[k].trades

\* C5 (walk-forward out-of-sample independence): the threshold the call returns
\* is a function of the data on the train dates: a benchmark series or a table
\* that differs from the given one on one date outside the train window gives
\* the same threshold.
C5_TrainDataOnly ==
    sel = "returned" =>
        \A d \in OutsideTrain :
            /\ \A v \in {3, 4, 6} :
                  selected.threshold \in MaySelect([benchmark_close EXCEPT ![d] = v])
            /\ \A r \in TableRows : SameRuns([table EXCEPT ![d] = r])

\* C14 (simulator preconditions): a call with fewer than 2 dates or an empty
\* symbol table raises and never produces a trade, a snapshot or a result; no
\* other call raises, and a call with at least 2 dates and at least one symbol
\* runs to its end and returns a result.
TooFewDates == Len(dates) < 2
NoSymbols == symbol_data = <<>>
\* What the step after the current program point needs.
StepExists ==
    CASE pc = "call" -> TRUE
      [] pc = "loop" -> index \in 1..Len(dates) /\ Bars # {}
      [] pc \in {"exits", "select", "enter", "snapshot"} -> index \in 2..Len(dates)
      [] pc = "evaluate" ->
            /\ Len(history) = Len(dates)
            /\ \A series \in BenchmarkSeries :
                  Evaluations(history, trades, dates, series, QuotientVals) # {}
      [] OTHER -> pc \in {"done", "raised"}
C14_Preconditions ==
    /\ []StepExists
    /\ []((TooFewDates \/ NoSymbols) =>
            /\ pc \in {"call", "raised"}
            /\ trades = <<>> /\ history = <<>> /\ results = NoResults)
    /\ [](pc = "raised" => (TooFewDates \/ NoSymbols))
    /\ ((pc = "call" /\ (TooFewDates \/ NoSymbols)) ~> pc = "raised")
    /\ ((pc = "call" /\ ~TooFewDates /\ ~NoSymbols) ~>
            (pc = "done" /\ results # NoResults))

\* A call with enough dates has raised on its empty symbol table.
C14_Witness == pc = "raised" /\ ~TooFewDates /\ NoSymbols
\* A call on the fewest dates allowed has returned.
C14_DoneWitness == pc = "done" /\ Len(dates) = 2 /\ results # NoResults

\* The BUY records of the ledger that no later SELL_STOP of the symbol follows.
OpenBuys(ledger) ==
    {i \in 1..Len(ledger) :
        /\ ledger[i].side = "BUY"
        /\ \A j \in (i + 1)..Len(ledger) : ledger[j].symbol # ledger[i].symbol}
\* The record at place i of the ledger closes what an earlier BUY opened.
ClosesEarlierBuy(ledger, i) ==
    \E j \in 1..(i - 1) :
        /\ ledger[j].side = "BUY"
        /\ ledger[j].symbol = ledger[i].symbol
        /\ ledger[j].qty = ledger[i].qty
        /\ \A k \in (j + 1)..(i - 1) : ledger[k].symbol # ledger[i].symbol

\* C17 (no forced liquidation): a position leaves the book only in the exit
\* phase, on its stop condition and with a SELL_STOP record; the ledger holds
\* only BUY and SELL_STOP records and every SELL_STOP closes the position of an
\* earlier BUY of that symbol and quantity; after the snapshot of the last date
\* nothing is sold: the open positions stay, valued in the final equity at that
\* date's close.
C17_NoForcedLiquidation ==
    /\ [](\A i \in 1..Len(trades) :
            /\ trades[i].side \in {"BUY", "SELL_STOP"}
            /\ trades[i].side = "SELL_STOP" => ClosesEarlierBuy(trades, i))
    /\ [][\A i \in 1..Len(positions) :
            (\A j \in 1..Len(positions') : positions'[j] # positions[i]) =>
                /\ pc = "exits"
                /\ StopConditionHolds(positions[i])
                /\ \E k \in (Len(trades) + 1)..Len(trades') :
                      /\ trades'[k].side = "SELL_STOP"
                      /\ trades'[k].symbol = positions[i].symbol
                      /\ trades'[k].qty = positions[i].qty
          ]_vars
    /\ [][(pc = "snapshot" /\ index = Len(dates)) =>
            Last(history').equity = cash + PositionValue]_vars
    /\ [][(pc \in {"loop", "evaluate"} /\ index = Len(dates)) =>
            positions' = positions /\ trades' = trades /\ history' = history]_vars
    /\ [](pc = "done" =>
            /\ {trades[i].symbol : i \in OpenBuys(trades)} = Held(positions)
            /\ Last(history).positions = Len(positions)
            /\ results.final_equity
                  \in RoundChoices(Last(history).equity, UNITS \div 100)
            /\ results.trades = Len(trades))

\* A run has returned after a stop-loss exit and with a position still open,
\* worth more than was paid for it.
C17_Witness ==
    /\ pc = "done"
    /\ positions # <<>>
    /\ \E i \in 1..Len(trades) : trades[i].side = "SELL_STOP"
    /\ Last(history).equity > Last(history).cash

\* ---- C11 ----
\* Walk-forward test ranges never overlap: whatever the accepted train_days,
\* test_days and step_days and whatever the calendar, the window records come
\* in increasing date order and no date belongs to the test range
\* [test_start, test_end] of two different windows.
C11_TestRangesDisjoint ==
    \A i, j \in 1..Len(windows) :
        i < j => /\ windows[i].train_start < windows[j].train_start
                 /\ windows[i].test_start < windows[j].test_start
                 /\ windows[i].test_end < windows[j].test_start

\* ---- C12 ----
\* Called with an empty list as threshold_grid, run_walk_forward_backtest
\* raises before any window is simulated: once the arguments have been looked
\* at the call has raised, and nothing was fetched or simulated.
C12_EmptyGridRaises ==
    (mode = "walk_forward" /\ ~grid_arg.is_none /\ grid_arg.list = <<>>
        /\ drv # "call")
    => /\ drv = "raised"
       /\ raw = NoRaw
       /\ calls = <<>>

\* ---- C13 ----
\* Walk-forward window validation: a floor that is not met (train_days < 120,
\* test_days < 20 or step_days < 10) raises before any data is fetched; with
\* the floors met and the table built the call raises if and only if the
\* calendar is too short to hold one window of train_days + test_days dates;
\* a call that does not raise returns at least one window, and the error
\* "No valid walk-forward windows could be produced." never happens.
HoldsOneWindow == Len(all_dates) >= train_days + test_days
C13_WindowValidation ==
    mode = "walk_forward" =>
        /\ (drv # "call"
              /\ (train_days < MIN_TRAIN_DAYS \/ test_days < MIN_TEST_DAYS
                    \/ step_days < MIN_STEP_DAYS))
           => (drv = "raised" /\ raw = NoRaw)
        /\ (drv = "raised" /\ all_dates # <<>> /\ symbol_data # <<>>)
           => ~HoldsOneWindow
        /\ (drv \in {"windows", "summary", "returned"}) => HoldsOneWindow
        /\ drv = "returned" => (windows # <<>> /\ results.windows >= 1)
        /\ error # "No valid walk-forward windows could be produced."

\* ---- C15 ----
\* Loader error policy: the run raises "No market data returned." exactly when
\* the provider returns no rows and "Insufficient benchmark history ..." exactly
\* when the benchmark has fewer than 252 dates; a universe symbol whose
\* extraction or features fail is left out of the table and nothing else
\* happens: the table holds exactly the symbols that loaded, a run that has one
\* of them is not aborted for the others and simulates the ones that remain,
\* and "No symbols with usable data." is raised only when every symbol was
\* dropped.
Loaded == {s \in Range(SYMBOLS) : provider.series[s].status = "ok"}
Dropped == {s \in Range(SYMBOLS) : provider.series[s].status # "ok"}
ArgumentErrors ==
    {"threshold_grid must contain at least one threshold.",
     "Use realistic windows: train_days>=120, test_days>=20, step_days>=10."}
C15_LoaderErrorPolicy ==
    /\ provider.rows = 0 =>
          /\ drv \in {"call", "validated", "raised"}
          /\ drv = "raised" => error \in ArgumentErrors \cup {"No market data returned."}
    /\ error = "No market data returned." => provider.rows = 0
    /\ provider.rows \in 1..(MIN_BENCHMARK_DATES - 1) =>
          /\ drv \in {"call", "validated", "fetched", "raised"}
          /\ drv = "raised" =>
                error \in ArgumentErrors
                           \cup {"Insufficient benchmark history for robust metrics."}
    /\ error = "Insufficient benchmark history for robust metrics." =>
          provider.rows \in 1..(MIN_BENCHMARK_DATES - 1)
    /\ all_dates # <<>> =>
          /\ Range(symbol_data) = Loaded
          /\ Len(symbol_data) = Cardinality(Loaded)
          /\ \A d \in DOMAIN table : DOMAIN table[d].close = Loaded
    /\ error = "No symbols with usable data." => Loaded = {}
    /\ (drv = "raised" /\ all_dates # <<>> /\ Loaded # {}) =>
          /\ mode = "walk_forward"
          /\ error = "Insufficient history for requested walk-forward windows."
    /\ drv = "returned" =>
          /\ Loaded # {}
          /\ Range(results.symbols_considered) = Loaded
          /\ calls # <<>>
          /\ \A i \in DOMAIN calls : \A j \in DOMAIN calls[i].trades :
                calls[i].trades[j].symbol \in Loaded

\* A run returned although symbols were dropped, and it traded a symbol that
\* comes after a dropped one in SYMBOLS.
C15_Witness ==
    /\ drv = "returned"
    /\ mode = "single"
    /\ Dropped # {}
    /\ \E i \in DOMAIN calls : \E j \in DOMAIN calls[i].trades :
          calls[i].trades[j].symbol = SYMBOLS[3]
    /\ SYMBOLS[2] \in Dropped

\* ---- C16 ----
\* Fresh state per invocation: every call of _simulate_on_dates, of a single
\* run and of each train and test run of every window, starts with
\* cash = INITIAL_CAPITAL, no positions, an empty ledger and a history of one
\* entry; no call changes the symbol table or the benchmark series; and the
\* outcome of a call is that of the same call made alone, whatever calls ran
\* before it.
StartOfCall(first) ==
    [cash |-> INITIAL_CAPITAL * UNITS, positions |-> <<>>, trades |-> <<>>,
     history |-> <<[date |-> first, equity |-> INITIAL_CAPITAL * UNITS,
                    cash |-> INITIAL_CAPITAL * UNITS, positions |-> 0]>>]
AloneOutcome(call) ==
    LET span == [i \in 1..(call.last - call.first + 1) |-> call.first + i - 1]
        run == SimulateRun(span, symbol_data, table, call.entry_threshold)
    IN  [trades |-> run.trades, final |-> Last(run.history)]
C16_StartsFresh ==
    /\ \A i \in DOMAIN calls : calls[i].start = StartOfCall(calls[i].first)
    /\ calls # <<>> =>
          AloneOutcome(Last(calls)) = [trades |-> Last(calls).trades,
                                       final |-> Last(calls).final]
C16_TableUntouched ==
    calls' # calls =>
        /\ table' = table
        /\ benchmark_close' = benchmark_close
        /\ symbol_data' = symbol_data
C16_FreshState == []C16_StartsFresh /\ [][C16_TableUntouched]_vars

\* A walk-forward run made calls in two windows, and an earlier call traded.
C16_Witness ==
    /\ mode = "walk_forward"
    /\ Len(windows) >= 2
    /\ \E i \in 1..(Len(calls) - 1) : calls[i].trades # <<>>
    /\ Last(calls).first > calls[1].first

\* ---- C19 ----
\* Hard-exclude gate: with hard exclusion enabled, the evaluation of a stock
\* order whose symbol is in the exclude set returns allowed = false with
\* blocked_by = "hard_exclude_list" and metrics.hard_exclude_hit = true, for a
\* sell as for a buy and whatever the later checks find: from the first check
\* on, blocked_by stays "hard_exclude_list".
StatusOf(list, name) ==
    LET at == CHOOSE i \in 1..Len(list) : list[i].name = name
    IN  list[at].status
ExcludedStockOrder ==
    /\ config.enable_hard_exclude
    /\ request.asset_class = "stock"
    /\ request.symbol = "ceg"
    /\ "CEG" \in config.hard_exclude_symbols
C19_HardExcludeGate ==
    (ExcludedStockOrder /\ pol \notin {"idle", "call"}) =>
        /\ blocked_by = "hard_exclude_list"
        /\ checks[1] = [name |-> "hard_exclude_list", status |-> "fail"]
        /\ pol = "returned" =>
              /\ ~policy.allowed
              /\ policy.blocked_by = "hard_exclude_list"
              /\ policy.metrics.hard_exclude_hit
              /\ StatusOf(policy.checks, "hard_exclude_list") = "fail"

\* An excluded stock was to be sold, every later check passed, and the
\* evaluation returned.
C19_Witness ==
    /\ pol = "returned"
    /\ ExcludedStockOrder
    /\ request.side = "Sell"
    /\ \A i \in 2..Len(policy.checks) : policy.checks[i].status = "pass"
    /\ ~policy.allowed

\* ---- C20 ----
\* Buying power nets pending buys: for a stock buy the available buying power
\* is max(0, buying_power - the summed notional of all open buy orders, of any
\* symbol), the buying_power check fails exactly when the order's notional
\* exceeds it or the account data is unavailable, and a failing check blocks
\* the order; a stock buy with an empty account profile is blocked, and
\* blocked_by is "account_data_required".
StockBuy == request.asset_class = "stock" /\ request.side = "buy"
OpenBuyNotional(i) ==
    LET order == broker.open_orders[i]
        named == IF order.symbol # "" THEN order.symbol ELSE "AAPL"
        shares == IF order.quantity = <<>> THEN 0 ELSE order.quantity[1]
        each == IF order.price # <<>> /\ order.price[1] > 0 THEN order.price[1]
                ELSE broker.quotes[named]
    IN  IF order.side \in {"buy", "BUY"} /\ shares > 0 THEN shares * each ELSE 0
RECURSIVE OpenBuysUpTo(_)
OpenBuysUpTo(n) == IF n = 0 THEN 0 ELSE OpenBuysUpTo(n - 1) + OpenBuyNotional(n)
NetBuyingPower ==
    LET held == IF broker.account.buying_power = <<>> THEN 0
                ELSE broker.account.buying_power[1]
    IN  Max(0, held - OpenBuysUpTo(Len(broker.open_orders)))
OrderNotional ==
    request.qty * (IF request.price # <<>> THEN request.price[1]
                   ELSE broker.quotes[Upper(request.symbol)])
C20_Netting ==
    (StockBuy /\ pol = "returned") =>
        /\ policy.metrics.available_buying_power = NetBuyingPower
        /\ StatusOf(policy.checks, "buying_power") = "fail"
              <=> (OrderNotional > NetBuyingPower \/ ~broker.account.loaded)
        /\ StatusOf(policy.checks, "buying_power") = "fail" => ~policy.allowed
C20_BuyingPowerNetsPendingBuys ==
    /\ C20_Netting
    /\ (StockBuy /\ pol = "returned" /\ ~broker.account.loaded) =>
          /\ ~policy.allowed
          /\ policy.blocked_by = "account_data_required"

\* C20 as amended: the same, but with an empty account profile the
\* account_data_required check fails, it comes before the buying_power check
\* (which fails too), and blocked_by is "account_data_required" unless the
\* hard-exclude check has failed before it, when it is "hard_exclude_list".
C20_Amended ==
    /\ C20_Netting
    /\ (StockBuy /\ pol = "returned" /\ ~broker.account.loaded) =>
          /\ ~policy.allowed
          /\ StatusOf(policy.checks, "account_data_required") = "fail"
          /\ StatusOf(policy.checks, "buying_power") = "fail"
          /\ \E i, j \in 1..Len(policy.checks) :
                /\ i < j
                /\ policy.checks[i].name = "account_data_required"
                /\ policy.checks[j].name = "buying_power"
          /\ policy.blocked_by = IF policy.checks[1].status = "fail"
                                 THEN "hard_exclude_list"
                                 ELSE "account_data_required"

\* A buy the buying power alone would cover is blocked by the buying_power
\* check because of open buy orders of another symbol.
C20_Witness ==
    /\ pol = "returned"
    /\ StockBuy
    /\ request.symbol = "MSFT"
    /\ \A i \in 1..Len(broker.open_orders) : broker.open_orders[i].symbol = "AAPL"
    /\ broker.account.loaded
    /\ OrderNotional <= broker.account.buying_power[1]
    /\ policy.blocked_by = "buying_power"

\* ---- C18 ----
\* Policy gate before order placement: when evaluate_pretrade_policy does not
\* allow the order, execute_order and execute_crypto_order return
\* success = false with the policy attached and hand nothing to the broker; an
\* order reaches the broker only after an evaluation of the policy that
\* returned allowed = true.
C18_PolicyGate ==
    /\ (srv = "returned" /\ ~EvaluatePretradePolicy(request, config, broker).allowed)
       => /\ ~response.success
          /\ response.policy_attached
          /\ placed = <<>>
    /\ placed # <<>> => (policy # NoPolicy /\ policy.allowed)

\* ---- C21 ----
\* The records of a ledger dated d or earlier, in order.
LedgerUpTo(ledger, d) ==
    LET dated(t) == t.date <= d IN SelectSeq(ledger, dated)
\* The number of records of one side for one symbol among the first n records.
SideCount(ledger, n, s, side) ==
    Cardinality({j \in 1..n : ledger[j].symbol = s /\ ledger[j].side = side})
\* The symbol is held once the first n records of the ledger have been made.
HeldAfter(ledger, n, s) ==
    SideCount(ledger, n, s, "BUY") > SideCount(ledger, n, s, "SELL_STOP")
\* The scores a cell of the table may hold.
CellScores == {r.score : r \in TableRows}
\* The ledger of the training run of a threshold on the table whose scores of
\* date d are replaced.
LedgerWithScore(threshold, d, cell) ==
    SimulateRun(train_dates, symbol_data, [table EXCEPT ![d].score = cell],
                threshold).trades

\* C21 (signal date): in a training run, once it is made, every BUY dated d is
\* dated after the first date of the run, for a symbol that is not held once
\* the SELL_STOP records of d are made, whose score on the date before d is
\* defined and at least the threshold of the run and whose open on d is above
\* 0; the records dated d or earlier are the same whatever the scores of d are.
C21_SignalDate ==
    (sel = "loop" /\ tried # <<>>) =>
        LET run == Last(tried)
        IN  /\ \A i \in 1..Len(run.trades) :
                  LET t == run.trades[i]
                  IN  t.side = "BUY" =>
                        /\ t.date \in Range(train_dates) \ {train_dates[1]}
                        /\ ~HeldAfter(run.trades, i - 1, t.symbol)
                        /\ table[t.date - 1].score[t.symbol] # NaN
                        /\ table[t.date - 1].score[t.symbol] >= run.threshold
                        /\ table[t.date].open[t.symbol] > 0
            /\ \A d \in Range(train_dates) : \A cell \in CellScores :
                  LedgerUpTo(LedgerWithScore(run.threshold, d, cell), d)
                     = LedgerUpTo(run.trades, d)

\* A run with threshold 70 bought on a date whose own score of 68 is below the
\* threshold, on the score of 72 of the date before.
C21_Witness ==
    \E k \in 1..Len(tried) : \E i \in 1..Len(tried[k].trades) :
        LET t == tried[k].trades[i]
        IN  /\ t.side = "BUY"
            /\ tried[k].threshold = 70
            /\ table[t.date].score[t.symbol] = 68
            /\ table[t.date - 1].score[t.symbol] = 72

\* A run stopped a position out and bought the symbol again on the same date.
C21_ReentryWitness ==
    \E k \in 1..Len(tried) : \E i \in 2..Len(tried[k].trades) :
        /\ tried[k].trades[i].side = "BUY"
        /\ tried[k].trades[i - 1].side = "SELL_STOP"
        /\ tried[k].trades[i - 1].date = tried[k].trades[i].date
        /\ tried[k].trades[i - 1].symbol = tried[k].trades[i].symbol

\* ---- C22 ----
\* The records a step appends to the ledger.
Appended == {i \in 1..Len(trades') : i > Len(trades)}
AppendsOnly(side) ==
    /\ Len(trades') >= Len(trades)
    /\ SubSeq(trades', 1, Len(trades)) = trades
    /\ \A i \in Appended : trades'[i].side = side /\ trades'[i].date = Today

\* C22 (day phase order): each date of the loop is the next one of dates and
\* goes through the stop-loss exits, the candidate selection, the entries and
\* the snapshot, in that order; the exits append SELL_STOP records only and the
\* entries BUY records only, so that in the ledger the dates never decrease
\* and no SELL_STOP follows a BUY of its date; the equity the entries are sized
\* on is cash plus the open positions at the date's close as they stand after
\* the exits, and no entry changes it; the snapshot is appended after the
\* entries, one per date, in the order of dates.
C22_PhaseOrder ==
    /\ [][/\ (pc = "loop" /\ pc' # "evaluate") =>
                /\ pc' = "exits"
                /\ index' = index + 1
                /\ UNCHANGED <<cash, positions, trades, history>>
          /\ pc = "exits" =>
                /\ pc' = "select"
                /\ AppendsOnly("SELL_STOP")
                /\ UNCHANGED <<index, history>>
          /\ pc = "select" =>
                /\ pc' = "enter"
                /\ equity' = cash + PositionValue
                /\ UNCHANGED <<index, cash, positions, trades, history>>
          /\ pc = "enter" =>
                /\ pc' = "snapshot"
                /\ AppendsOnly("BUY")
                /\ UNCHANGED <<index, equity, history>>
          /\ pc = "snapshot" =>
                /\ pc' = "loop"
                /\ Len(history') = Len(history) + 1
                /\ Last(history').date = Today
                /\ UNCHANGED <<index, cash, positions, trades>>
         ]_vars
    /\ [](\A i, j \in 1..Len(trades) :
              i < j =>
                /\ trades[i].date <= trades[j].date
                /\ (trades[i].date = trades[j].date /\ trades[i].side = "BUY")
                      => trades[j].side = "BUY")
    /\ [](\A i \in 1..Len(history) : history[i].date = dates[i])
    /\ [](pc \in {"exits", "select", "enter", "snapshot"} => Len(history) = index - 1)

\* A snapshot has been taken of the third date, on which a position was stopped
\* out before another was entered.
C22_Witness ==
    /\ pc = "loop"
    /\ index = 3
    /\ Len(history) = 3
    /\ \E i \in TradesOn(trades, Today, "SELL_STOP") :
          \E j \in TradesOn(trades, Today, "BUY") : i < j

\* ---- C23 ----
\* What one record of the ledger moves into cash, in units: a BUY takes
\* qty * fill price and the fee, a SELL_STOP gives qty * close * (1 - slippage)
\* less the fee. (The price of a record counts 0.0001 dollar.)
FlowOf(trade) ==
    LET value == (trade.qty * trade.price) \div (BPS_PER_ONE \div UNITS)
    IN  IF trade.side = "BUY" THEN 0 - (value + FEE_PER_TRADE * UNITS)
        ELSE value - FEE_PER_TRADE * UNITS
LedgerFlow(ledger) == SeqSum([i \in 1..Len(ledger) |-> FlowOf(ledger[i])])

\* C23 (cash-flow conservation): at every point of a run cash is the initial
\* capital less qty * fill price + fee of every BUY plus
\* qty * close * (1 - slippage) - fee of every SELL_STOP.
C23_CashConservation ==
    pc \notin {"call", "raised"} => cash = INITIAL_CAPITAL * UNITS + LedgerFlow(trades)

\* ---- C24 ----
\* The fill price of a candidate, in units: open * (1 + slippage).
ExecPrice(candidate) == candidate.next_open * (UNITS + 1)
\* min(equity * max_position_pct, spendable cash) as the entry phase finds them,
\* in twentieths of a unit. (With MAX_NEW_TRADES_PER_DAY = 1 the spendable cash
\* that remains at a BUY is the spendable cash of the date.)
TargetNotional ==
    Min((max_position_pct * equity) \div 5,
        Max(0, TWENTIETHS * cash - (CASH_BUFFER_PCT * equity) \div 5))
\* floor(target_notional / exec_price).
QtyAsStated(candidate) == TargetNotional \div (TWENTIETHS * ExecPrice(candidate))
\* floor(max(0, target_notional - fee) / exec_price).
QtyFeeReserved(candidate) ==
    Max(0, TargetNotional - TWENTIETHS * FEE_PER_TRADE * UNITS)
        \div (TWENTIETHS * ExecPrice(candidate))
\* The entry phase walks the candidates while there is spendable cash and a
\* free slot.
WalkOpen == TargetNotional > 0 /\ Len(positions) < MAX_OPEN_POSITIONS
\* What the entry phase does when it sizes each candidate with Qty: it skips
\* the candidates whose quantity is 0 or whose cost exceeds cash and buys the
\* first one left, Qty of it at its fill price; the position holds that
\* quantity, at least 1, at that price.
EntersSizedBy(Qty(_)) ==
    LET Cost(c) == Qty(c) * ExecPrice(c) + FEE_PER_TRADE * UNITS
        buyable == {i \in 1..Len(candidates) :
                       Qty(candidates[i]) >= 1 /\ Cost(candidates[i]) <= cash}
    IN  IF WalkOpen /\ buyable # {}
        THEN LET c == candidates[CHOOSE i \in buyable : \A j \in buyable : i <= j]
             IN  /\ Len(trades') = Len(trades) + 1
                 /\ SubSeq(trades', 1, Len(trades)) = trades
                 /\ Last(trades').side = "BUY"
                 /\ Last(trades').symbol = c.symbol
                 /\ Last(trades').qty = Qty(c)
                 /\ Last(trades').price = Round4(ExecPrice(c))
                 /\ positions' = Append(positions,
                                        [symbol |-> c.symbol, qty |-> Qty(c),
                                         entry_price |-> ExecPrice(c),
                                         entry_date |-> Today])
                 /\ Last(positions').qty >= 1
                 /\ cash' = cash - Cost(c)
        ELSE UNCHANGED <<trades, positions, cash>>

\* C24 as stated: the entry phase sizes each candidate at
\* floor(target_notional / exec_price).
C24_AsStated == [][pc = "enter" => EntersSizedBy(QtyAsStated)]_vars

\* C24 (entry sizing): each BUY fills at exec_price = open * (1 + slippage) with
\* quantity = floor(max(0, target_notional - fee) / exec_price), where
\* target_notional = min(equity * max_position_pct, remaining spendable cash);
\* the position has an integer quantity >= 1 and entry_price = exec_price, and
\* a candidate is skipped, later candidates still being tried, when that
\* quantity is 0 or quantity * exec_price + fee exceeds cash.
C24_EntrySizing == [][pc = "enter" => EntersSizedBy(QtyFeeReserved)]_vars

\* At one dollar a share 1498 shares were bought where the whole target of 1500
\* dollars pays for 1499 at 1.0005.
C24_Witness ==
    /\ pc = "snapshot"
    /\ feed = "penny"
    /\ Len(trades) = 1
    /\ trades[1].side = "BUY"
    /\ trades[1].qty = 1498
    /\ positions[1].qty = 1498

\* The first candidate was too dear for one share and the second was bought.
C24_SkipWitness ==
    /\ pc = "snapshot"
    /\ Len(candidates) = 2
    /\ candidates[1].next_open = 2000
    /\ BoughtOn(trades, Today) = {candidates[2].symbol}

\* ---- C25 ----
\* cash_buffer_pct of the equity the entries are sized on, in hundredths of a
\* unit.
BufferTimes100 == CASH_BUFFER_PCT * equity

\* C25 (untouchable cash buffer): what the entry phase of a date takes out of
\* cash, fill cost and fees together, is at most max(0, cash - cash_buffer_pct
\* * equity) as they stand before the first entry; after an entry phase that
\* bought, cash is at least cash_buffer_pct * that equity; cash is never
\* negative, in the run or in a snapshot.
C25_CashBuffer ==
    /\ [][pc = "enter" =>
            /\ cash' <= cash
            /\ 100 * (cash - cash') <= Max(0, 100 * cash - BufferTimes100)
            /\ Len(trades') > Len(trades) => 100 * cash' >= BufferTimes100
         ]_vars
    /\ [](cash >= 0 /\ \A i \in 1..Len(history) : history[i].cash >= 0)

\* A BUY of fewer shares than max_position_pct of equity pays for: what cash
\* leaves above the buffer was the smaller amount.
C25_Witness ==
    /\ pc = "snapshot"
    /\ feed = "flat"
    /\ TradesOn(trades, Today, "BUY") # {}
    /\ 100 * (cash + Last(trades).qty * Last(positions).entry_price
                + FEE_PER_TRADE * UNITS) - BufferTimes100
          < max_position_pct * equity
    /\ 100 * cash >= BufferTimes100

\* ---- C26 ----
\* Nothing of cash is left above the buffer when the entries begin.
SpendableExhausted == 100 * cash <= CASH_BUFFER_PCT * equity

\* C26 (entry rate limit): no date has more than MAX_NEW_TRADES_PER_DAY BUY
\* records; no symbol has two open positions, and the entry phase never buys a
\* symbol that is held; the entry phase buys nothing when spendable cash is
\* exhausted or the open-position cap is reached, whatever candidates remain.
C26_EntryRateLimit ==
    /\ [](\A d \in Range(dates) :
              Cardinality(TradesOn(trades, d, "BUY")) <= MAX_NEW_TRADES_PER_DAY)
    /\ [](\A i, j \in 1..Len(positions) :
              i # j => positions[i].symbol # positions[j].symbol)
    /\ [][pc = "enter" =>
            /\ {trades'[i].symbol : i \in Appended} \cap Held(positions) = {}
            /\ (SpendableExhausted \/ Len(positions) >= MAX_OPEN_POSITIONS)
                  => UNCHANGED <<trades, positions, cash>>
         ]_vars

\* With a slot free and candidates waiting the entry phase bought nothing:
\* cash was within the buffer.
C26_Witness ==
    /\ pc = "snapshot"
    /\ candidates # <<>>
    /\ Len(positions) < MAX_OPEN_POSITIONS
    /\ SpendableExhausted
    /\ TradesOn(trades, Today, "BUY") = {}
    /\ TradesOn(trades, dates[index - 1], "BUY") # {}

\* ---- C27 ----
\* The symbol's own row for the date has no score: the symbol has too little
\* history on it, or no bar.
OwnScoreUndefined(s, d) == provider.series[s].bars[d].score = NaN

\* C27 (undefined data stays unscored): no call of _simulate_on_dates buys a
\* symbol on a date when the symbol's own row for the date before has no
\* score, and the table on the benchmark calendar has no score where the
\* symbol's own row has none.
C27_UndefinedStaysUnscored ==
    /\ \A k \in 1..Len(calls) : \A i \in 1..Len(calls[k].trades) :
          calls[k].trades[i].side = "BUY"
             => ~OwnScoreUndefined(calls[k].trades[i].symbol,
                                   calls[k].trades[i].date - 1)
    /\ \A d \in DOMAIN table : \A s \in DOMAIN table[d].score :
          OwnScoreUndefined(s, d) => table[d].score[s] = NaN

\* ---- C28 ----
\* The benchmark's return over the simulated dates, in hundredths of a percent,
\* as round() may give it.
BenchmarkReturnOverRange ==
    RoundChoices((benchmark_close[Last(dates)] - benchmark_close[dates[1]]) * BPS_PER_ONE,
                 benchmark_close[dates[1]])

\* C28 (benchmark rescaling): in a finished call the benchmark curve is worth
\* INITIAL_CAPITAL on the first date of the call, whichever date of the
\* calendar that is, and benchmark_return_pct is the benchmark's return from
\* that date to the last date of the call.
C28_BenchmarkRescaling ==
    pc = "done" =>
        /\ BenchmarkCurve(benchmark_close, dates)[1] = Frac(INITIAL_CAPITAL, 1)
        /\ results.benchmark_return_pct \in BenchmarkReturnOverRange

\* ---- C29 ----
\* The records of one side in the ledger.
RecordsOf(side) == {i \in 1..Len(trades) : trades[i].side = side}

\* C29 (equity history shape): once the run is set up the history begins with
\* the snapshot of dates[0], equity = cash = INITIAL_CAPITAL and no position;
\* every trade is dated one of the later dates; when the loop has ended the
\* history holds one snapshot per date, in the order of dates; the trade count
\* the call returns is the number of BUY plus SELL_STOP records, and the ledger
\* holds no other record.
C29_HistoryShape ==
    /\ pc \notin {"call", "raised"} =>
          /\ Len(history) >= 1
          /\ history[1] = [date |-> dates[1], equity |-> INITIAL_CAPITAL * UNITS,
                           cash |-> INITIAL_CAPITAL * UNITS, positions |-> 0]
    /\ \A i \in 1..Len(trades) : trades[i].date \in Range(dates) \ {dates[1]}
    /\ pc \in {"evaluate", "done"} =>
          /\ Len(history) = Len(dates)
          /\ \A i \in 1..Len(history) : history[i].date = dates[i]
          /\ \A i \in 1..(Len(dates) - 1) : dates[i] < dates[i + 1]
    /\ pc = "done" =>
          /\ results.trades
                = Cardinality(RecordsOf("BUY")) + Cardinality(RecordsOf("SELL_STOP"))
          /\ RecordsOf("BUY") \cup RecordsOf("SELL_STOP") = 1..Len(trades)

\* A call on three dates returned after a BUY, a SELL_STOP and another BUY.
C29_Witness ==
    /\ pc = "done"
    /\ Len(dates) = 3
    /\ Cardinality(RecordsOf("BUY")) = 2
    /\ Cardinality(RecordsOf("SELL_STOP")) = 1
    /\ results.trades = 3

\* ---- C30 ----
\* floor((N - train_days - test_days) / step_days) + 1, none when that is
\* below 1.
WindowCount ==
    Max(0, (Len(all_dates) - train_days - test_days) \div step_days + 1)
\* The call of _simulate_on_dates that tests window k: the last of the calls
\* the window makes, after one training call per threshold.
TestCallOf(k) == calls[k * (Len(threshold_grid) + 1)]
\* The windows whose test range holds the date.
TestedIn(d) ==
    {k \in 1..Len(windows) : windows[k].test_start <= d /\ d <= windows[k].test_end}

\* C30 (walk-forward window layout and termination): with the floors met and
\* the table built on a calendar of N dates, the run ends with exactly
\* floor((N - train_days - test_days) / step_days) + 1 windows; window k
\* (counted from 0) trains on the train_days dates from place k * step_days of
\* the calendar and is tested on the test_days dates that follow, the test run
\* starting on the last train date, on which it makes no trade; with
\* step_days = test_days every date after the first train window that lies in
\* a complete window is in exactly one test range.
C30_WindowLayout ==
    (/\ mode = "walk_forward"
     /\ ~FloorsBroken(train_days, test_days, step_days)
     /\ all_dates # <<>>
     /\ symbol_data # <<>>) =>
        /\ drv \in {"returned", "raised"} => Len(windows) = WindowCount
        /\ Len(windows) <= WindowCount
        /\ \A k \in 1..Len(windows) :
              /\ windows[k].train_start = all_dates[(k - 1) * step_days + 1]
              /\ windows[k].train_end = all_dates[(k - 1) * step_days + train_days]
              /\ windows[k].test_start = all_dates[(k - 1) * step_days + train_days + 1]
              /\ windows[k].test_end
                    = all_dates[(k - 1) * step_days + train_days + test_days]
              /\ TestCallOf(k).first = windows[k].train_end
              /\ TestCallOf(k).last = windows[k].test_end
              /\ \A i \in 1..Len(TestCallOf(k).trades) :
                    TestCallOf(k).trades[i].date > windows[k].train_end
        /\ (step_days = test_days /\ drv = "returned") =>
              \A d \in (train_days + 1)..(train_days + WindowCount * test_days) :
                  Cardinality(TestedIn(d)) = 1

====
